---- MODULE Spec2Model ----
(***************************************************************************)
(* A model of the code-understanding core of the-gap:                      *)
(*   - SemanticCache           (src/src/utils/cache.ts)                    *)
(*   - GraphBuilder            (src/src/parser/fileIndexer.ts)             *)
(*   - parseFileComplete       (src/unnamed/part_001)                      *)
(*   - InMemoryVectorStore     (src/src/rag/ragEngine.ts)                  *)
(*   - HybridRetriever         (src/unnamed/part_002)                      *)
(*   - EmbeddingCache, GraphQueryCache (src/src/utils/cache.ts)            *)
(*   - LmStudioClient, the embedders and cmdIndex                          *)
(*       (src/src/cli/tui.tsx, src/unnamed/part_002, src/src/cli/commands.ts) *)
(* Each component has a specification of its own (SpecCache, SpecGraph,    *)
(* SpecSearch, ...); the variables of the other components stay at their   *)
(* initial value.                                                          *)
(***************************************************************************)
EXTENDS Integers, Sequences, FiniteSets, TLC

VARIABLES
    \* ---- SemanticCache ----
    cache,      \* Map<string, CacheEntry>, as the sequence of its entries in insertion order
    maxSize,    \* SemanticCache.maxSize
    ttl,        \* SemanticCache.ttlMs, in clock ticks
    now,        \* the clock Date.now() reads
    audit,      \* which history variables this specification records: "ops" or "lru"
    lastOp,     \* history ("ops"): the last cache call and what it returned
    recency,    \* history ("lru"): the keys in the cache, least recently used (get hit or set) first
    scn,        \* history ("lru"): the set calls so far, while they are pairwise distinct
    \* ---- GraphBuilder ----
    disk,       \* the source files: physical file -> content
    symbolsJson,\* the filePath entries of .the-gap/symbols.json, in file order
    nodes,      \* GraphBuilder.nodes: Map<string, GraphNode>, entries in insertion order
    edges,      \* GraphBuilder.edges
    fileParseResults, \* GraphBuilder.fileParseResults: Map<string, ParseResult>
    pc,         \* where buildCompleteGraph stands: "idle" or "parse"
    files,      \* buildCompleteGraph's local: the file paths to parse
    next,       \* buildCompleteGraph's loop position in files
    graph,      \* the CodeGraph the last completed buildCompleteGraph returned
    built,      \* history: input and returned graph of every completed build
    graphJson,  \* the file .the-gap/graph.json
    \* ---- InMemoryVectorStore and HybridRetriever ----
    records,    \* InMemoryVectorStore.records
    retrieverGraph, \* HybridRetriever.graph: a CodeGraph or null
    lastSearch, \* history: the last search call, its candidates, scores and result
    storeOp,    \* history: the last call of the vector store, its arguments and result
    \* ---- HybridRetriever.search calls that overlap ----
    pending,    \* the search calls suspended at `await this.rag.search(...)`
    finished,   \* history: the last search call that returned, and what it returned
    stats,      \* history: what the last getGraphStats call returned
    \* ---- EmbeddingCache.getOrCompute ----
    inflight,   \* the getOrCompute calls suspended at `await computeFn()`
    computeCount, \* history: text -> number of computeFn invocations
    returned,   \* history: the last getOrCompute call that returned, and what it returned
    \* ---- cmdIndex and the embedders ----
    embedder,   \* cmdIndex's local: which embedder it uses
    indexPc,    \* where cmdIndex stands: "start", "probe", "index" or "done"
    embedLog,   \* history: the embeddings computed so far
    runs,       \* history: number of cmdIndex runs started
    \* ---- a second GraphBuilder, and the graph queries ----
    loader,     \* the nodes and edges of a fresh GraphBuilder, and what its loadGraph returned
    lastQuery,  \* history: the last graph query, its builder, argument and result
    \* ---- GraphQueryCache ----
    storedAt,   \* history: cache key -> number of builds completed when it was stored
    \* ---- retry ----
    options,    \* retry's options: maxAttempts, and whether onRetry is given
    retryPc,    \* where retry stands: "idle", "fn", "sleep", "resolved" or "rejected"
    attempt,    \* retry's loop counter
    delay,      \* retry's local: the next sleep, in ms
    lastError,  \* retry's local
    trace,      \* history: the calls of fn, how they ended, and the calls of onRetry
    retryOut,   \* history: how retry's promise was settled
    \* ---- SemanticCache.load ----
    persistFile, \* the entries in the file at persistPath
    loading     \* the load call: where it stands and what readJson gave it

cacheVars == <<cache, maxSize, ttl, now, audit, lastOp, recency, scn>>

graphVars == <<disk, symbolsJson, nodes, edges, fileParseResults, pc, files, next,
               graph, built, graphJson>>

searchVars == <<records, retrieverGraph, lastSearch>>

storeVars == <<storeOp>>

concVars == <<pending, finished, stats>>

embVars == <<inflight, computeCount, returned>>

indexVars == <<embedder, indexPc, embedLog, runs>>

queryVars == <<loader, lastQuery>>

qcacheVars == <<storedAt>>

retryVars == <<options, retryPc, attempt, delay, lastError, trace, retryOut>>

persistVars == <<persistFile, loading>>

vars == <<cache, maxSize, ttl, now, audit, lastOp, recency, scn,
          disk, symbolsJson, nodes, edges, fileParseResults, pc, files, next,
          graph, built, graphJson, records, retrieverGraph, lastSearch, storeOp,
          pending, finished, stats, inflight, computeCount, returned,
          embedder, indexPc, embedLog, runs, loader, lastQuery, storedAt,
          options, retryPc, attempt, delay, lastError, trace, retryOut,
          persistFile, loading>>

-----------------------------------------------------------------------------
(* Generic helpers *)

Range(s) == {s[i] : i \in 1..Len(s)}

RemoveAt(s, i) == SubSeq(s, 1, i - 1) \o SubSeq(s, i + 1, Len(s))

Without(s, x) == SelectSeq(s, LAMBDA y : y # x)

Min2(a, b) == IF a <= b THEN a ELSE b

Max0(a) == IF a >= 0 THEN a ELSE 0

Take(s, n) == SubSeq(s, 1, Min2(n, Len(s)))

-----------------------------------------------------------------------------
(* SemanticCache *)

MaxCap == 2         \* largest maxSize a cache is constructed with
MaxTime == 2        \* the clock runs from 0 to MaxTime
MaxAccessCount == 1 \* a get hit is taken only while accessCount is below this
ttlMs == 1          \* the ttlMs option the caches are constructed with, in clock ticks

\* '' is a string like any other, and the only one that is falsy
CacheKeys == {"", "k1", "k2"}
CacheValues == {"v1"}

Miss == "null"
NoKey == "<none>"

\* Map.prototype.has / get / set / delete on the entry sequence
IndexOfKey(m, key) ==
    IF \E i \in 1..Len(m) : m[i].key = key
    THEN CHOOSE i \in 1..Len(m) : m[i].key = key
    ELSE 0

MapHas(m, key) == IndexOfKey(m, key) # 0

MapGet(m, key) == m[IndexOfKey(m, key)]

MapSet(m, key, entry) ==
    IF MapHas(m, key)
    THEN [m EXCEPT ![IndexOfKey(m, key)] = entry]
    ELSE Append(m, entry)

MapDelete(m, key) == SelectSeq(m, LAMBDA e : e.key # key)

MapKeys(m) == {m[i].key : i \in 1..Len(m)}

\* a get that never expires an entry
IsExpiredNever(entry, t) == FALSE

\* cache.ts:76 and cache.ts:115
IsExpired(entry, t) == t - entry.timestamp > ttl

\* cache.ts:153-158: the first entry, in iteration order, of the smallest timestamp
OldestKey(m) ==
    IF Len(m) = 0 THEN NoKey
    ELSE LET i == CHOOSE i \in 1..Len(m) :
                     /\ \A j \in 1..Len(m) : m[i].timestamp <= m[j].timestamp
                     /\ \A j \in 1..(i - 1) : m[j].timestamp > m[i].timestamp
         IN m[i].key

\* cache.ts:149-163: if (oldestKey) is false for no key found and for the key ''
evictLRU(m) ==
    LET oldestKey == OldestKey(m) IN
    IF oldestKey # NoKey /\ oldestKey # "" THEN MapDelete(m, oldestKey) ELSE m

\* cache.ts:71-86, as [cache after, value returned]
GetResult(m, key, t) ==
    IF ~MapHas(m, key) THEN [cache |-> m, ret |-> Miss]
    ELSE LET entry == MapGet(m, key) IN
         IF IsExpired(entry, t)
         THEN [cache |-> MapDelete(m, key), ret |-> Miss]
         ELSE [cache |-> MapSet(m, key, [entry EXCEPT !.accessCount = @ + 1,
                                                      !.timestamp = t]),
               ret |-> entry.value]

\* cache.ts:91-105
SetResult(m, cap, key, value, t) ==
    LET m1 == IF Len(m) >= cap /\ ~MapHas(m, key) THEN evictLRU(m) ELSE m
    IN MapSet(m1, key, [key |-> key, value |-> value, timestamp |-> t, accessCount |-> 0])

\* cache.ts:110-121, as [cache after, value returned]
HasResult(m, key, t) ==
    IF ~MapHas(m, key) THEN [cache |-> m, ret |-> FALSE]
    ELSE IF IsExpired(MapGet(m, key), t)
         THEN [cache |-> MapDelete(m, key), ret |-> FALSE]
         ELSE [cache |-> m, ret |-> TRUE]

\* history of the set calls: the keys set so far while they are pairwise distinct, no
\* more than maxSize + 1 of them, the first of them was never read by get and no entry
\* was removed for being expired
NoScn == [ok |-> FALSE, keys |-> <<>>]

ScnAfterSet(s, cap, key) ==
    IF s.ok /\ key \notin Range(s.keys) /\ Len(s.keys) <= cap
    THEN [s EXCEPT !.keys = Append(@, key)]
    ELSE NoScn

\* a get of the first key, or a get or has that removed an expired entry, ends it
ScnAfterRead(s, key, removed) ==
    IF s.ok /\ (removed \/ (Len(s.keys) > 0 /\ s.keys[1] = key)) THEN NoScn ELSE s

NoOp == [op |-> "none", key |-> NoKey, ret |-> Miss, found |-> "-"]

\* found: what the call found under the key ("absent", "expired", "fresh")
Op(op, key, ret, found) ==
    IF audit = "ops" THEN [op |-> op, key |-> key, ret |-> ret, found |-> found] ELSE NoOp

Found(m, key, t) ==
    IF ~MapHas(m, key) THEN "absent"
    ELSE IF t - MapGet(m, key).timestamp > ttl THEN "expired" ELSE "fresh"

set(key, value) ==
    LET after == SetResult(cache, maxSize, key, value, now)
        gone == MapKeys(cache) \ MapKeys(after)
    IN /\ cache' = after
       /\ lastOp' = Op("set", key, Miss, Found(cache, key, now))
       /\ recency' = IF audit = "lru"
                     THEN Append(SelectSeq(recency, LAMBDA k : k # key /\ k \notin gone), key)
                     ELSE recency
       /\ scn' = IF audit = "lru" THEN ScnAfterSet(scn, maxSize, key) ELSE scn
       /\ UNCHANGED <<maxSize, ttl, now, audit>>

get(key) ==
    LET r == GetResult(cache, key, now) IN
    /\ MapHas(cache, key) => MapGet(cache, key).accessCount < MaxAccessCount
    /\ cache' = r.cache
    /\ lastOp' = Op("get", key, r.ret, Found(cache, key, now))
    /\ recency' = IF audit # "lru" THEN recency
                  ELSE IF ~MapHas(r.cache, key) THEN Without(recency, key)
                  ELSE Append(Without(recency, key), key)
    /\ scn' = IF audit = "lru"
              THEN ScnAfterRead(scn, key, MapHas(cache, key) /\ ~MapHas(r.cache, key))
              ELSE scn
    /\ UNCHANGED <<maxSize, ttl, now, audit>>

has(key) ==
    LET r == HasResult(cache, key, now) IN
    /\ cache' = r.cache
    /\ lastOp' = Op("has", key, IF r.ret THEN "true" ELSE "false", Found(cache, key, now))
    /\ recency' = IF audit = "lru" /\ ~MapHas(r.cache, key) THEN Without(recency, key)
                  ELSE recency
    /\ scn' = IF audit = "lru" /\ MapHas(cache, key) /\ ~MapHas(r.cache, key)
              THEN NoScn ELSE scn
    /\ UNCHANGED <<maxSize, ttl, now, audit>>

\* time passes between two calls
Tick ==
    /\ now < MaxTime
    /\ now' = now + 1
    /\ lastOp' = Op("tick", NoKey, Miss, "-")
    /\ UNCHANGED <<cache, maxSize, ttl, audit, recency, scn>>

InitCacheState ==
    /\ cache = <<>>
    /\ maxSize \in 1..MaxCap
    /\ ttl = ttlMs
    /\ now = 0
    /\ lastOp = NoOp
    /\ recency = <<>>

\* the cache specifications leave the other components untouched
CacheFrame == UNCHANGED <<graphVars, searchVars, storeVars, concVars, embVars, indexVars,
                          queryVars, qcacheVars, retryVars, persistVars>>

NextCache ==
    \/ \E key \in CacheKeys, value \in CacheValues : set(key, value) /\ CacheFrame
    \/ \E key \in CacheKeys : get(key) /\ CacheFrame
    \/ \E key \in CacheKeys : has(key) /\ CacheFrame
    \/ Tick /\ CacheFrame

-----------------------------------------------------------------------------
(* node:path on POSIX, as GraphBuilder uses it.  A path string is kept as the list of
   its '/'-separated segments plus whether it starts with '/'; PathStr is its text. *)

RECURSIVE JoinStr(_, _)
JoinStr(parts, sep) ==
    IF Len(parts) = 0 THEN ""
    ELSE IF Len(parts) = 1 THEN parts[1]
    ELSE parts[1] \o sep \o JoinStr(Tail(parts), sep)

Path(abs, segs) == [abs |-> abs, segs |-> segs]

PathStr(p) == (IF p.abs THEN "/" ELSE "") \o JoinStr(p.segs, "/")

\* process.cwd(); the builder is run from the project root
Cwd == Path(TRUE, <<"proj">>)

\* the segments of the model's paths that begin with a dot
DotSegs == {".", ".."}

\* String.prototype.startsWith('.') on a path string
StartsWithDot(p) == ~p.abs /\ Len(p.segs) > 0 /\ p.segs[1] \in DotSegs

RECURSIVE NormalizeSegs(_, _)
NormalizeSegs(segs, out) ==
    IF Len(segs) = 0 THEN out
    ELSE LET s == Head(segs) IN
         IF s = "." \/ s = "" THEN NormalizeSegs(Tail(segs), out)
         ELSE IF s = ".."
              THEN NormalizeSegs(Tail(segs),
                                 IF Len(out) = 0 THEN out ELSE SubSeq(out, 1, Len(out) - 1))
              ELSE NormalizeSegs(Tail(segs), Append(out, s))

\* path.resolve(from, to) for an absolute from
resolveFrom(from, to) ==
    IF to.abs THEN Path(TRUE, NormalizeSegs(to.segs, <<>>))
    ELSE Path(TRUE, NormalizeSegs(from.segs \o to.segs, <<>>))

\* path.resolve(p)
resolve(p) == resolveFrom(Cwd, p)

\* path.dirname of an absolute, normalised path
dirname(p) ==
    IF Len(p.segs) = 0 THEN p ELSE Path(p.abs, SubSeq(p.segs, 1, Len(p.segs) - 1))

RECURSIVE CommonPrefixLen(_, _)
CommonPrefixLen(a, b) ==
    IF Len(a) = 0 \/ Len(b) = 0 \/ Head(a) # Head(b) THEN 0
    ELSE 1 + CommonPrefixLen(Tail(a), Tail(b))

\* path.relative(from, to) for absolute, normalised arguments
relative(from, to) ==
    LET c == CommonPrefixLen(from.segs, to.segs) IN
    Path(FALSE, [i \in 1..(Len(from.segs) - c) |-> ".."]
                \o SubSeq(to.segs, c + 1, Len(to.segs)))

\* resolved + ext (string concatenation): a suffix either extends the last segment
\* ('.ts') or adds a segment ('/index.ts')
Ext(slash, text) == [slash |-> slash, text |-> text]

AddExt(p, ext) ==
    IF ext.slash \/ Len(p.segs) = 0 THEN Path(p.abs, Append(p.segs, ext.text))
    ELSE Path(p.abs, [p.segs EXCEPT ![Len(p.segs)] = @ \o ext.text])

-----------------------------------------------------------------------------
(* parseFileComplete.  A source text is kept as the syntax tree ts.createSourceFile
   gives for it; only the node kinds and fields that visit() looks at are kept.
   Positions and line numbers of symbols and calls are left out. *)

\* callerFunction of a top-level call
Null == "<null>"

NoCallee == [form |-> "other", recv |-> "", name |-> ""]

Nd(kind) ==
    [kind |-> kind, name |-> "", exported |-> FALSE, decls |-> <<>>,
     module |-> Path(FALSE, <<>>), defaultName |-> "", named |-> <<>>, ns |-> "",
     callee |-> NoCallee, kids |-> <<>>]

SourceFile(kids) == [Nd("SourceFile") EXCEPT !.kids = kids]

\* function name(...) { kids }; name = "" for an anonymous default export
FunctionDeclaration(name, exported, kids) ==
    [Nd("FunctionDeclaration") EXCEPT !.name = name, !.exported = exported, !.kids = kids]

\* class name { members }
ClassDeclaration(name, exported, members) ==
    [Nd("ClassDeclaration") EXCEPT !.name = name, !.exported = exported, !.kids = members]

\* name(...) { kids } in a class; name = "" when the member name is not an identifier
MethodDeclaration(name, kids) ==
    [Nd("MethodDeclaration") EXCEPT !.name = name, !.kids = kids]

InterfaceDeclaration(name, exported) ==
    [Nd("InterfaceDeclaration") EXCEPT !.name = name, !.exported = exported]

TypeAliasDeclaration(name, exported) ==
    [Nd("TypeAliasDeclaration") EXCEPT !.name = name, !.exported = exported]

\* one declaration of a variable statement; name = "" for a binding pattern
Decl(name, arrow) == [name |-> name, arrow |-> arrow]

\* const d1 = ..., d2 = ...; kids are the nodes inside the initializers
VariableStatement(exported, decls, kids) ==
    [Nd("VariableStatement") EXCEPT !.exported = exported, !.decls = decls, !.kids = kids]

\* import defaultName, { named } from 'module'  /  import * as ns from 'module'
ImportDeclaration(module, defaultName, named, ns) ==
    [Nd("ImportDeclaration") EXCEPT !.module = module, !.defaultName = defaultName,
                                    !.named = named, !.ns = ns]

\* name(...): a call whose expression is an identifier
Call(name, kids) ==
    [Nd("CallExpression") EXCEPT !.callee = [form |-> "ident", recv |-> "", name |-> name],
                                 !.kids = kids]

\* recv.name(...): a property access on an identifier
MemberCall(recv, name, kids) ==
    [Nd("CallExpression") EXCEPT !.callee = [form |-> "member", recv |-> recv, name |-> name],
                                 !.kids = kids]

\* <expr>.name(...): a property access on anything else (this.x(), a.b.c())
DeepCall(name, kids) ==
    [Nd("CallExpression") EXCEPT !.callee = [form |-> "deep", recv |-> "", name |-> name],
                                 !.kids = kids]

EmptyParse == [symbols |-> <<>>, imports |-> <<>>, calls |-> <<>>]

\* part_001:105-108
add(acc, filePath, kind, name, exported) ==
    [acc EXCEPT !.symbols = Append(@, [name |-> name, kind |-> kind,
                                       filePath |-> filePath, exported |-> exported])]

\* part_001:157-168, the symbols of the declarations of a variable statement
RECURSIVE addDecls(_, _, _, _)
addDecls(acc, filePath, decls, exported) ==
    IF Len(decls) = 0 THEN acc
    ELSE LET d == Head(decls) IN
         addDecls(IF d.name # ""
                  THEN add(acc, filePath, IF d.arrow THEN "function" ELSE "variable",
                           d.name, exported)
                  ELSE acc,
                  filePath, Tail(decls), exported)

\* part_001:164-166, currentFunction after the declarations loop
RECURSIVE lastArrow(_, _)
lastArrow(decls, cur) ==
    IF Len(decls) = 0 THEN cur
    ELSE LET d == Head(decls) IN
         lastArrow(Tail(decls), IF d.name # "" /\ d.arrow THEN d.name ELSE cur)

\* part_001:178-211, one ImportInfo per imported binding
importsOf(node, filePath) ==
    LET info(n, isDefault) == [importedName |-> n, modulePath |-> node.module,
                               filePath |-> filePath, isDefault |-> isDefault]
    IN  (IF node.defaultName # "" THEN <<info(node.defaultName, TRUE)>> ELSE <<>>)
        \o (IF Len(node.named) > 0
            THEN [i \in 1..Len(node.named) |-> info(node.named[i], FALSE)]
            ELSE IF node.ns # "" THEN <<info(node.ns, FALSE)>> ELSE <<>>)

\* part_001:218-231; a name is kept as the list of its '.'-separated parts,
\* <<>> stands for undefined
calleeNameOf(node) ==
    CASE node.callee.form = "ident"  -> <<node.callee.name>>
      [] node.callee.form = "member" -> <<node.callee.recv, node.callee.name>>
      [] node.callee.form = "deep"   -> <<node.callee.name>>
      [] OTHER                       -> <<>>

RECURSIVE visit(_, _, _, _)
RECURSIVE visitEach(_, _, _, _)
RECURSIVE visitMethods(_, _, _, _)

\* part_001:118-245.  visit leaves currentFunction as it found it (line 244), so it is
\* an argument; the result is the symbols, imports and calls collected so far.
visit(node, filePath, currentFunction, acc) ==
    LET prevFunction == currentFunction
        isFunction == node.kind = "FunctionDeclaration" /\ node.name # ""
        acc1 == IF isFunction
                THEN add(acc, filePath, "function", node.name, node.exported)
                ELSE acc
        cur1 == IF isFunction THEN node.name ELSE currentFunction
        isClass == node.kind = "ClassDeclaration" /\ node.name # ""
        acc2 == IF isClass
                THEN visitMethods(node.kids, filePath, node.name,
                                  add(acc1, filePath, "class", node.name, node.exported))
                ELSE acc1
        cur2 == IF isClass /\ \E i \in 1..Len(node.kids) :
                                  /\ node.kids[i].kind = "MethodDeclaration"
                                  /\ node.kids[i].name # ""
                THEN prevFunction
                ELSE cur1
        acc3 == IF node.kind = "InterfaceDeclaration"
                THEN add(acc2, filePath, "interface", node.name, node.exported)
                ELSE acc2
        acc4 == IF node.kind = "TypeAliasDeclaration"
                THEN add(acc3, filePath, "type", node.name, node.exported)
                ELSE acc3
        isVariable == node.kind = "VariableStatement"
        acc5 == IF isVariable THEN addDecls(acc4, filePath, node.decls, node.exported)
                ELSE acc4
        cur3 == IF isVariable THEN lastArrow(node.decls, cur2) ELSE cur2
        acc6 == IF node.kind = "ImportDeclaration"
                THEN [acc5 EXCEPT !.imports = @ \o importsOf(node, filePath)]
                ELSE acc5
        calleeName == calleeNameOf(node)
        acc7 == IF node.kind = "CallExpression" /\ calleeName # <<>>
                THEN [acc6 EXCEPT !.calls = Append(@, [callerFunction |-> cur3,
                                                       calleeName |-> calleeName,
                                                       filePath |-> filePath])]
                ELSE acc6
    IN  visitEach(node.kids, filePath, cur3, acc7)

\* ts.forEachChild(node, visit)
visitEach(kids, filePath, currentFunction, acc) ==
    IF Len(kids) = 0 THEN acc
    ELSE visitEach(Tail(kids), filePath, currentFunction,
                   visit(Head(kids), filePath, currentFunction, acc))

\* part_001:133-141, the loop over the members of a class
visitMethods(members, filePath, className, acc) ==
    IF Len(members) = 0 THEN acc
    ELSE LET member == Head(members)
             methodName == className \o "." \o member.name
         IN  visitMethods(Tail(members), filePath, className,
                 IF member.kind = "MethodDeclaration" /\ member.name # ""
                 THEN visitEach(member.kids, filePath, methodName,
                                add(acc, filePath, "function", methodName, FALSE))
                 ELSE acc)

\* part_001:98-249
parseFileComplete(filePath, sourceFile) == visit(sourceFile, filePath, Null, EmptyParse)

-----------------------------------------------------------------------------
(* The project on disk: /proj is the project root and the working directory. *)

FileA  == Path(TRUE, <<"proj", "src", "a.ts">>)
FileB  == Path(TRUE, <<"proj", "src", "b.ts">>)
FileBx == Path(TRUE, <<"proj", "src", "b.tsx">>)
FileBi == Path(TRUE, <<"proj", "src", "b", "index.ts">>)
FileC  == Path(TRUE, <<"other", "c.ts">>)

PhysFiles == {FileA, FileB, FileBx, FileBi, FileC}

\* module specifiers
ModB      == Path(FALSE, <<".", "b">>)
ModBts    == Path(FALSE, <<".", "b.ts">>)
ModA      == Path(FALSE, <<".", "a">>)
ModOther  == Path(FALSE, <<"..", "..", "other", "c">>)
ModLodash == Path(FALSE, <<"lodash">>)

\* import { helper } from './b'; export function main() { helper(); }
ProgA1 ==
    SourceFile(<<ImportDeclaration(ModB, "", <<"helper">>, ""),
                 FunctionDeclaration("main", TRUE, <<Call("helper", <<>>)>>)>>)

\* import b, { x } from './b.ts'; import * as _ from 'lodash';
\* export function helper() {}
\* export function main() { helper(); Svc.run(); obj.go(); }
\* class Svc { run() { this.main(); } }
\* main();
ProgA2 ==
    SourceFile(<<ImportDeclaration(ModBts, "b", <<"x">>, ""),
                 ImportDeclaration(ModLodash, "", <<>>, "_"),
                 FunctionDeclaration("helper", TRUE, <<>>),
                 FunctionDeclaration("main", TRUE,
                     <<Call("helper", <<>>), MemberCall("Svc", "run", <<>>),
                       MemberCall("obj", "go", <<>>)>>),
                 ClassDeclaration("Svc", FALSE,
                     <<MethodDeclaration("run", <<DeepCall("main", <<>>)>>)>>),
                 Call("main", <<>>)>>)

\* import c from '../../other/c';
\* function f(): void; function f() {}
\* const g = () => f(g()), v = 1;
\* export interface I {}  type T = number;
\* export default function () { helper(); }
ProgA3 ==
    SourceFile(<<ImportDeclaration(ModOther, "c", <<>>, ""),
                 FunctionDeclaration("f", FALSE, <<>>),
                 FunctionDeclaration("f", FALSE, <<>>),
                 VariableStatement(FALSE, <<Decl("g", TRUE), Decl("v", FALSE)>>,
                     <<Call("f", <<Call("g", <<>>)>>)>>),
                 InterfaceDeclaration("I", TRUE),
                 TypeAliasDeclaration("T", FALSE),
                 FunctionDeclaration("", TRUE, <<Call("helper", <<>>)>>)>>)

\* import b, { x, y } from './b'; export function main() {}
ProgA4 ==
    SourceFile(<<ImportDeclaration(ModB, "b", <<"x", "y">>, ""),
                 FunctionDeclaration("main", TRUE, <<>>)>>)

\* export function helper() {}
ProgB1 == SourceFile(<<FunctionDeclaration("helper", TRUE, <<>>)>>)

\* import { main } from './a'; import * as self from './b';
\* export const helper = () => { main(); };
ProgB2 ==
    SourceFile(<<ImportDeclaration(ModA, "", <<"main">>, ""),
                 ImportDeclaration(ModB, "", <<>>, "self"),
                 VariableStatement(TRUE, <<Decl("helper", TRUE)>>,
                     <<Call("main", <<>>)>>)>>)

Absent == [kind |-> "absent", ast |-> SourceFile(<<>>)]
Blank == [kind |-> "blank", ast |-> SourceFile(<<>>)]
\* a text on which parseFileComplete throws
Unparsable == [kind |-> "unparsable", ast |-> SourceFile(<<>>)]
Text(ast) == [kind |-> "text", ast |-> ast]

\* what each file may hold
ContentsOf(f) ==
    CASE f = FileA -> {Absent, Blank, Unparsable, Text(ProgA1), Text(ProgA2), Text(ProgA3)}
      [] f = FileB -> {Absent, Text(ProgB1), Text(ProgB2)}
      [] f = FileC -> {Text(ProgB1)}
      [] OTHER     -> {Absent, Text(ProgB1)}

\* symbols.json holds one entry per symbol, so a file shows up more than once
RelativeKeys ==
    <<Path(FALSE, <<"src", "a.ts">>), Path(FALSE, <<"src", "a.ts">>),
      Path(FALSE, <<"src", "b.ts">>), Path(FALSE, <<"src", "b.tsx">>),
      Path(FALSE, <<"src", "b", "index.ts">>)>>

AbsoluteKeys == <<FileA, FileB, FileB, FileBx, FileBi, FileC>>

\* an empty path, a directory, and relative next to absolute paths
MixedKeys ==
    <<Path(FALSE, <<>>), Path(FALSE, <<"src", "a.ts">>), Path(FALSE, <<"src", "b">>),
      FileB, Path(FALSE, <<"src", "b.tsx">>), FileC>>

KeyLists == {RelativeKeys, AbsoluteKeys, MixedKeys}

\* fs.ts:37-47; stat succeeds for a file and for a directory
IsFile(d, p) == p \in DOMAIN d /\ d[p].kind # "absent"

IsDirectory(d, p) ==
    \E f \in DOMAIN d :
        /\ d[f].kind # "absent"
        /\ Len(f.segs) > Len(p.segs)
        /\ SubSeq(f.segs, 1, Len(p.segs)) = p.segs

exists(d, p) == IsFile(d, p) \/ IsDirectory(d, p)

-----------------------------------------------------------------------------
(* GraphBuilder (fileIndexer.ts) *)

MaxBuilds == 2

Edge(source, target, type) == [source |-> source, target |-> target, type |-> type]

\* `file:${filePath}`
FileId(filePath) == "file:" \o PathStr(filePath)

\* `${symbol.kind}:${filePath}:${symbol.name}`
SymbolId(kind, filePath, name) == kind \o ":" \o PathStr(filePath) \o ":" \o name

\* filePath.split('/').pop() ?? filePath
LabelOf(filePath) ==
    IF Len(filePath.segs) = 0 THEN PathStr(filePath) ELSE filePath.segs[Len(filePath.segs)]

\* Array.from(new Set(list)): the first occurrence of each element, in order
RECURSIVE Dedupe(_, _)
Dedupe(list, out) ==
    IF Len(list) = 0 THEN out
    ELSE Dedupe(Tail(list),
                IF \E i \in 1..Len(out) : PathStr(out[i]) = PathStr(Head(list))
                THEN out ELSE Append(out, Head(list)))

\* fileIndexer.ts:156-172; file nodes carry no exported flag, kept here as FALSE
RECURSIVE addSymbols(_, _, _)
addSymbols(st, filePath, symbols) ==
    IF Len(symbols) = 0 THEN st
    ELSE LET symbol == Head(symbols)
             symbolId == SymbolId(symbol.kind, filePath, symbol.name)
         IN  addSymbols(
                 [st EXCEPT !.nodes = MapSet(@, symbolId,
                                [key |-> symbolId, id |-> symbolId, label |-> symbol.name,
                                 type |-> symbol.kind, path |-> PathStr(filePath),
                                 exported |-> symbol.exported]),
                            !.edges = Append(@, Edge(FileId(filePath), symbolId, "contains"))],
                 filePath, Tail(symbols))

\* a builder that parses an empty file like any other
IsEmptyNever(content) == FALSE

\* fileIndexer.ts:138: content.trim().length === 0
IsEmpty(content) == content.kind = "blank"

\* fileIndexer.ts:119-176 on the builder state st = [nodes, edges, fileParseResults]
parseAndIndexFile(st, d, filePath) ==
    IF PathStr(filePath) = "" THEN st
    ELSE LET fullPath == resolve(filePath) IN
         IF ~exists(d, fullPath) THEN st
         ELSE IF ~IsFile(d, fullPath) THEN st      \* readFile throws on a directory
         ELSE IF IsEmpty(d[fullPath]) THEN st
         ELSE IF d[fullPath].kind = "unparsable" THEN st   \* fileIndexer.ts:173-175
         ELSE LET parseResult == parseFileComplete(filePath, d[fullPath].ast)
                  fileId == FileId(filePath)
                  st1 == [st EXCEPT
                            !.fileParseResults =
                                MapSet(@, PathStr(filePath),
                                       [key |-> PathStr(filePath), filePath |-> filePath,
                                        result |-> parseResult]),
                            !.nodes =
                                MapSet(@, fileId,
                                       [key |-> fileId, id |-> fileId,
                                        label |-> LabelOf(filePath), type |-> "file",
                                        path |-> PathStr(filePath), exported |-> FALSE])]
              IN  addSymbols(st1, filePath, parseResult.symbols)

extensions ==
    <<Ext(FALSE, ".ts"), Ext(FALSE, ".tsx"), Ext(FALSE, ".js"), Ext(FALSE, ".jsx"),
      Ext(TRUE, "index.ts"), Ext(TRUE, "index.tsx")>>

\* fileIndexer.ts:230-236; <<>> when no suffix matches
RECURSIVE probe(_, _, _, _)
probe(parsed, exts, resolved, projectRoot) ==
    IF Len(exts) = 0 THEN <<>>
    ELSE LET withExt == AddExt(resolved, Head(exts))
             relPath == relative(projectRoot, withExt)
         IN  IF MapHas(parsed, PathStr(relPath)) \/ MapHas(parsed, PathStr(withExt))
             THEN <<IF StartsWithDot(relPath) THEN withExt ELSE relPath>>
             ELSE probe(parsed, Tail(exts), resolved, projectRoot)

\* fileIndexer.ts:217-247; <<>> stands for null
resolveImportPath(parsed, importPath, fromFile, projectRoot) ==
    IF StartsWithDot(importPath)
    THEN LET fromDir == dirname(resolve(fromFile))
             resolved == resolveFrom(fromDir, importPath)
             found == probe(parsed, extensions, resolved, projectRoot)
         IN  IF found # <<>> THEN found ELSE <<relative(projectRoot, resolved)>>
    ELSE <<>>

\* a builder that adds the imports edge whatever the target
IsKnownTargetAlways(nodeMap, targetFileId) == TRUE

\* fileIndexer.ts:188
IsKnownTarget(nodeMap, targetFileId) == MapHas(nodeMap, targetFileId)

\* fileIndexer.ts:181-196
RECURSIVE importEdges(_, _, _, _, _)
importEdges(nodeMap, parsed, filePath, imports, projectRoot) ==
    IF Len(imports) = 0 THEN <<>>
    ELSE LET imp == Head(imports)
             resolvedPath == resolveImportPath(parsed, imp.modulePath, filePath, projectRoot)
             rest == importEdges(nodeMap, parsed, filePath, Tail(imports), projectRoot)
         IN  IF resolvedPath # <<>> /\ PathStr(resolvedPath[1]) # ""
                /\ IsKnownTarget(nodeMap, FileId(resolvedPath[1]))
             THEN <<Edge(FileId(filePath), FileId(resolvedPath[1]), "imports")>> \o rest
             ELSE rest

\* a resolver that also looks for the callee among the functions of the other files
findCallTargetAnyFile(nodeMap, calleeName, filePath) ==
    LET name == JoinStr(calleeName, ".")
        hits == {i \in 1..Len(nodeMap) :
                    nodeMap[i].type = "function" /\ nodeMap[i].label = name}
    IN  IF hits = {} THEN Null ELSE nodeMap[CHOOSE i \in hits : \A j \in hits : i <= j].id

\* fileIndexer.ts:249-276; Null stands for null
findCallTarget(nodeMap, calleeName, filePath) ==
    LET methodId == SymbolId("function", filePath,
                             calleeName[1] \o "." \o JoinStr(Tail(calleeName), "."))
        functionId == SymbolId("function", filePath, JoinStr(calleeName, "."))
    IN  IF Len(calleeName) > 1 /\ MapHas(nodeMap, methodId) THEN methodId
        ELSE IF MapHas(nodeMap, functionId) THEN functionId
        ELSE Null

\* fileIndexer.ts:199-213
RECURSIVE callEdges(_, _, _)
callEdges(nodeMap, filePath, calls) ==
    IF Len(calls) = 0 THEN <<>>
    ELSE LET call == Head(calls)
             sourceId == IF call.callerFunction # Null
                         THEN SymbolId("function", filePath, call.callerFunction)
                         ELSE FileId(filePath)
             targetId == findCallTarget(nodeMap, call.calleeName, filePath)
             rest == callEdges(nodeMap, filePath, Tail(calls))
         IN  IF targetId # Null /\ MapHas(nodeMap, targetId)
             THEN <<Edge(sourceId, targetId, "calls")>> \o rest
             ELSE rest

\* fileIndexer.ts:178-215: the edges pushed for the parse results from the i-th on
RECURSIVE buildEdges(_, _, _, _)
buildEdges(nodeMap, parsed, i, projectRoot) ==
    IF i > Len(parsed) THEN <<>>
    ELSE importEdges(nodeMap, parsed, parsed[i].filePath, parsed[i].result.imports,
                     projectRoot)
         \o callEdges(nodeMap, parsed[i].filePath, parsed[i].result.calls)
         \o buildEdges(nodeMap, parsed, i + 1, projectRoot)

\* the object JSON.stringify writes for a node: a file node has no exported property
JsonNodeWithoutPath(node) == [id |-> node.id, label |-> node.label, type |-> node.type]

JsonNode(node) ==
    IF node.type = "file"
    THEN [id |-> node.id, label |-> node.label, type |-> node.type, path |-> node.path]
    ELSE [id |-> node.id, label |-> node.label, type |-> node.type, path |-> node.path,
          exported |-> node.exported]

\* the GraphNode JSON.parse gives back; a property the text does not hold reads as
\* undefined ('' for the path, FALSE for the flag)
NodeFromJson(j) ==
    [key |-> j.id, id |-> j.id, label |-> j.label, type |-> j.type,
     path |-> IF "path" \in DOMAIN j THEN j.path ELSE "",
     exported |-> IF "exported" \in DOMAIN j THEN j.exported ELSE FALSE]

NoSnapshot == [written |-> FALSE, nodes |-> <<>>, edges |-> <<>>]

\* fs.ts:17-20 on a CodeGraph
writeJson(g) ==
    [written |-> TRUE,
     nodes |-> [i \in 1..Len(g.nodes) |-> JsonNode(g.nodes[i])],
     edges |-> g.edges]

\* fs.ts:22-30 on graph.json, with the fallback null
NotFound == [found |-> FALSE, nodes |-> <<>>, edges |-> <<>>]

readJson(file) ==
    IF ~file.written THEN NotFound
    ELSE [found |-> TRUE,
          nodes |-> [i \in 1..Len(file.nodes) |-> NodeFromJson(file.nodes[i])],
          edges |-> file.edges]

\* a builder that keeps the edges of the build before
KeptEdges == edges

\* fileIndexer.ts:85
ClearedEdges == <<>>

\* the input of a build: the files and symbols.json
Input == [disk |-> disk, symbolsJson |-> symbolsJson]

\* fileIndexer.ts:83-93, up to the loop
BuildStart ==
    /\ pc = "idle"
    /\ Len(built) < MaxBuilds
    /\ nodes' = <<>>
    /\ edges' = ClearedEdges
    /\ fileParseResults' = <<>>
    /\ files' = Dedupe(symbolsJson, <<>>)
    /\ next' = 1
    /\ pc' = "parse"
    /\ UNCHANGED <<disk, symbolsJson, graph, built, graphJson>>

\* fileIndexer.ts:95-97, one turn of the loop
ParseAndIndexFile ==
    /\ pc = "parse"
    /\ next <= Len(files)
    /\ LET st == parseAndIndexFile([nodes |-> nodes, edges |-> edges,
                                    fileParseResults |-> fileParseResults],
                                   disk, files[next])
       IN  /\ nodes' = st.nodes
           /\ edges' = st.edges
           /\ fileParseResults' = st.fileParseResults
    /\ next' = next + 1
    /\ UNCHANGED <<disk, symbolsJson, pc, files, graph, built, graphJson>>

\* fileIndexer.ts:99-109
BuildEdges ==
    /\ pc = "parse"
    /\ next > Len(files)
    /\ edges' = edges \o buildEdges(nodes, fileParseResults, 1, Cwd)
    /\ graph' = [nodes |-> nodes, edges |-> edges']
    /\ built' = Append(built, [input |-> Input, graph |-> graph'])
    /\ graphJson' = writeJson(graph')
    /\ pc' = "idle"
    /\ UNCHANGED <<disk, symbolsJson, nodes, fileParseResults, files, next>>

\* somebody edits one source file between two builds
WriteFile(f, content) ==
    /\ pc = "idle"
    /\ Len(built) >= 1
    /\ Len(built) < MaxBuilds
    /\ disk = built[Len(built)].input.disk
    /\ content # disk[f]
    /\ disk' = [disk EXCEPT ![f] = content]
    /\ UNCHANGED <<symbolsJson, nodes, edges, fileParseResults, pc, files, next,
                   graph, built, graphJson>>

NoGraph == [nodes |-> <<>>, edges |-> <<>>]

EmptyDisk == [f \in PhysFiles |-> Absent]

\* a builder that has not been used
GraphIdle ==
    /\ nodes = <<>>
    /\ edges = <<>>
    /\ fileParseResults = <<>>
    /\ pc = "idle"
    /\ files = <<>>
    /\ next = 1
    /\ graph = NoGraph
    /\ built = <<>>
    /\ graphJson = NoSnapshot

\* the graph specification leaves the other components untouched
GraphFrame == UNCHANGED <<cacheVars, searchVars, storeVars, concVars, embVars, indexVars,
                          queryVars, qcacheVars, retryVars, persistVars>>

NextGraph ==
    \/ BuildStart /\ GraphFrame
    \/ ParseAndIndexFile /\ GraphFrame
    \/ BuildEdges /\ GraphFrame
    \/ \E f \in PhysFiles : \E content \in ContentsOf(f) : WriteFile(f, content) /\ GraphFrame

-----------------------------------------------------------------------------
(* buildCompleteGraph as a function of its input, the graph queries and loadGraph
   (fileIndexer.ts:83-110 and 281-340) *)

NewBuilder == [nodes |-> <<>>, edges |-> <<>>, fileParseResults |-> <<>>]

\* fileIndexer.ts:95-97: each file is awaited before the next one is looked at; a file
\* that is skipped leaves the builder as it was
RECURSIVE parseAll(_, _, _)
parseAll(st, d, list) ==
    IF Len(list) = 0 THEN st
    ELSE LET indexed == parseAndIndexFile(st, d, Head(list))
         IN  IF indexed = st THEN parseAll(st, d, Tail(list))
             ELSE parseAll(indexed, d, Tail(list))

\* fileIndexer.ts:83-110: the graph returned for the files on disk d and the file paths
\* keys of symbols.json
buildCompleteGraph(d, keys, projectRoot) ==
    LET st == parseAll(NewBuilder, d, Dedupe(keys, <<>>))
    IN  [nodes |-> st.nodes,
         edges |-> st.edges \o buildEdges(st.nodes, st.fileParseResults, 1, projectRoot)]

\* an edge test that forgets the type of the edge
EdgeMatchesAnyType(edge, end, id, type) == edge[end] = id

\* fileIndexer.ts:284, 295, 306, 317
EdgeMatches(edge, end, id, type) == edge[end] = id /\ edge.type = type

OtherEnd(end) == IF end = "target" THEN "source" ELSE "target"

\* the loop the four queries share: the nodes at the other end of the matching edges,
\* in edge order; an end that is no node is left out
RECURSIVE NodesAcross(_, _, _, _, _)
NodesAcross(nodeMap, edgeList, end, id, type) ==
    IF Len(edgeList) = 0 THEN <<>>
    ELSE LET edge == Head(edgeList)
             rest == NodesAcross(nodeMap, Tail(edgeList), end, id, type)
         IN  IF EdgeMatches(edge, end, id, type) /\ MapHas(nodeMap, edge[OtherEnd(end)])
             THEN <<MapGet(nodeMap, edge[OtherEnd(end)])>> \o rest
             ELSE rest

\* fileIndexer.ts:281-290
getCallersOf(nodeMap, edgeList, symbolId) ==
    NodesAcross(nodeMap, edgeList, "target", symbolId, "calls")

\* fileIndexer.ts:292-301
getCalleesOf(nodeMap, edgeList, symbolId) ==
    NodesAcross(nodeMap, edgeList, "source", symbolId, "calls")

\* fileIndexer.ts:303-312
getImportsOf(nodeMap, edgeList, fileId) ==
    NodesAcross(nodeMap, edgeList, "source", fileId, "imports")

\* fileIndexer.ts:314-323
getImportersOf(nodeMap, edgeList, fileId) ==
    NodesAcross(nodeMap, edgeList, "target", fileId, "imports")

QueryTypes == {"getCallersOf", "getCalleesOf", "getImportsOf", "getImportersOf"}

RunQuery(queryType, nodeMap, edgeList, id) ==
    CASE queryType = "getCallersOf"   -> getCallersOf(nodeMap, edgeList, id)
      [] queryType = "getCalleesOf"   -> getCalleesOf(nodeMap, edgeList, id)
      [] queryType = "getImportsOf"   -> getImportsOf(nodeMap, edgeList, id)
      [] queryType = "getImportersOf" -> getImportersOf(nodeMap, edgeList, id)

\* an id no graph holds
UnknownId == "function:src/none.ts:nothing"

\* the ids a caller may ask about: every node, every end of an edge, and an unknown id
QueryIds(nodeMap, edgeList) ==
    {nodeMap[i].id : i \in 1..Len(nodeMap)}
        \cup {edgeList[i].source : i \in 1..Len(edgeList)}
        \cup {edgeList[i].target : i \in 1..Len(edgeList)}
        \cup {UnknownId}

NoQuery == [on |-> "none", queryType |-> "none", id |-> "", result |-> <<>>]

\* a query on the builder that built the graph; the history keeps one query for each
\* state of the two builders
QueryBuilder(queryType, id) ==
    /\ lastQuery = NoQuery
    /\ pc = "idle"
    /\ Len(built) >= 1
    /\ id \in QueryIds(nodes, edges)
    /\ lastQuery' = [on |-> "builder", queryType |-> queryType, id |-> id,
                     result |-> RunQuery(queryType, nodes, edges, id)]
    /\ UNCHANGED <<graphVars, loader>>

\* a query on the builder that loaded the graph
QueryLoader(queryType, id) ==
    /\ lastQuery = NoQuery
    /\ loader.called
    /\ id \in QueryIds(loader.nodes, loader.edges)
    /\ lastQuery' = [on |-> "loader", queryType |-> queryType, id |-> id,
                     result |-> RunQuery(queryType, loader.nodes, loader.edges, id)]
    /\ UNCHANGED <<graphVars, loader>>

\* fileIndexer.ts:332-334
RECURSIVE SetNodes(_, _)
SetNodes(nodeMap, list) ==
    IF Len(list) = 0 THEN nodeMap
    ELSE SetNodes(MapSet(nodeMap, Head(list).id, Head(list)), Tail(list))

FreshLoader == [nodes |-> <<>>, edges |-> <<>>, result |-> NotFound, called |-> FALSE]

\* fileIndexer.ts:325-340, on the second builder
loadGraph ==
    LET g == readJson(graphJson) IN
    /\ loader' = IF g.found
                 THEN [nodes |-> SetNodes(<<>>, g.nodes), edges |-> g.edges,
                       result |-> g, called |-> TRUE]
                 ELSE [loader EXCEPT !.result = g, !.called = TRUE]
    /\ loader' # loader
    /\ lastQuery' = NoQuery
    /\ UNCHANGED graphVars

QueryIdle ==
    /\ loader = FreshLoader
    /\ lastQuery = NoQuery

\* lastQuery is the last query since the graph or the disk last changed
ForgetQuery == lastQuery' = NoQuery /\ UNCHANGED loader

QueryFrame == UNCHANGED <<cacheVars, searchVars, storeVars, concVars, embVars, indexVars,
                          qcacheVars, retryVars, persistVars>>

NextQuery ==
    \/ BuildStart /\ ForgetQuery /\ QueryFrame
    \/ ParseAndIndexFile /\ ForgetQuery /\ QueryFrame
    \/ BuildEdges /\ ForgetQuery /\ QueryFrame
    \/ \E content \in ContentsOf(FileB) :
           WriteFile(FileB, content) /\ ForgetQuery /\ QueryFrame
    \/ loadGraph /\ QueryFrame
    \/ \E queryType \in QueryTypes :
           \E id \in QueryIds(nodes, edges) : QueryBuilder(queryType, id) /\ QueryFrame
    \/ \E queryType \in QueryTypes :
           \E id \in QueryIds(loader.nodes, loader.edges) :
               QueryLoader(queryType, id) /\ QueryFrame

-----------------------------------------------------------------------------
(* GraphQueryCache (cache.ts:218-233), next to a GraphBuilder that rebuilds *)

\* cache.ts:222-225 with one parameter: JSON.stringify puts a string in double quotes
GraphQueryKey(queryType, id) == "graph_" \o queryType \o "_\"" \o id \o "\""

\* the ids whose query results the callers cache
CachedIds == {FileId(Path(FALSE, <<"src", "a.ts">>))}

QueryKeys == {GraphQueryKey(queryType, id) :
                  queryType \in {"getCallersOf", "getImportsOf"}, id \in CachedIds}

NeverStored == 0 - 1

\* a caller stores the result of a query under the query's key
CacheQuery(queryType, id) ==
    LET key == GraphQueryKey(queryType, id) IN
    /\ pc = "idle"
    /\ set(key, RunQuery(queryType, nodes, edges, id))
    /\ storedAt' = [storedAt EXCEPT ![key] = Len(built)]
    /\ UNCHANGED graphVars

\* cache.ts:230-232 and 126-128
invalidateAll ==
    /\ cache # <<>>
    /\ cache' = <<>>
    /\ lastOp' = Op("invalidateAll", NoKey, Miss, "-")
    /\ recency' = <<>>
    /\ UNCHANGED <<maxSize, ttl, now, audit, scn, storedAt, graphVars>>

QCacheIdle == storedAt = [k \in QueryKeys |-> NeverStored]

QCacheFrame == UNCHANGED <<searchVars, storeVars, concVars, embVars, indexVars, queryVars,
                           retryVars, persistVars>>

NextQueryCache ==
    \/ BuildStart /\ UNCHANGED <<cacheVars, storedAt>> /\ QCacheFrame
    \/ ParseAndIndexFile /\ UNCHANGED <<cacheVars, storedAt>> /\ QCacheFrame
    \/ BuildEdges /\ UNCHANGED <<cacheVars, storedAt>> /\ QCacheFrame
    \/ \E content \in ContentsOf(FileB) :
           WriteFile(FileB, content) /\ UNCHANGED <<cacheVars, storedAt>> /\ QCacheFrame
    \/ \E queryType \in {"getCallersOf", "getImportsOf"}, id \in CachedIds :
           CacheQuery(queryType, id) /\ QCacheFrame
    \/ invalidateAll /\ QCacheFrame

-----------------------------------------------------------------------------
(* InMemoryVectorStore and RagEngine (ragEngine.ts).  Vectors have integer components
   and an integer length, so that similarities are compared exactly. *)

MaxDocs == 3
MaxK == 2

Vectors == {<<1, 0>>, <<0, 1>>}

\* the embedder is a function of the text
Queries == {"q"}
Embed(query) == <<1, 0>>

\* what a document says about its file: a first line 'File: <path>', or nothing
PathA == "src/file0.ts"
PathB == "src/file1.ts"
PathC == "src/file2.ts"
FileLine(path) == [header |-> "File:", path |-> path]
Prose == [header |-> "", path |-> ""]
Contents == {FileLine(PathA), FileLine(PathB), Prose}

\* `d${n}`
DocId(n) == "d" \o ToString(n)

ISqrt(n) == CHOOSE r \in 0..n : r * r = n

RECURSIVE SumTo(_, _)
SumTo(f, n) == IF n = 0 THEN 0 ELSE f[n] + SumTo(f, n - 1)

\* ragEngine.ts:67-78; the quotient dot / (norm + 1e-9) is kept as the pair of dot and
\* norm = sqrt(na) * sqrt(nb)
cosineSim(a, b) ==
    LET min == Min2(Len(a), Len(b))
        dot == SumTo([i \in 1..min |-> a[i] * b[i]], min)
        na == SumTo([i \in 1..min |-> a[i] * a[i]], min)
        nb == SumTo([i \in 1..min |-> b[i] * b[i]], min)
    IN  [dot |-> dot, norm |-> ISqrt(na) * ISqrt(nb)]

\* a comparison under which a record overtakes the records of equal similarity
SimGreaterOrEqual(x, y) ==
    LET d == x.dot * y.norm - y.dot * x.norm IN
    d > 0 \/ (d = 0 /\ x.dot >= y.dot)

\* x.dot / (x.norm + 1e-9) > y.dot / (y.norm + 1e-9), for small integers
SimGreater(x, y) ==
    LET d == x.dot * y.norm - y.dot * x.norm IN
    d > 0 \/ (d = 0 /\ x.dot > y.dot)

\* Array.prototype.sort with (a, b) => b.score - a.score is stable: an element goes in
\* front of the first one of a smaller score
RECURSIVE InsertBySim(_, _)
InsertBySim(sorted, x) ==
    IF Len(sorted) = 0 THEN <<x>>
    ELSE IF SimGreater(x.score, Head(sorted).score) THEN <<x>> \o sorted
    ELSE <<Head(sorted)>> \o InsertBySim(Tail(sorted), x)

RECURSIVE SortBySim(_, _)
SortBySim(list, sorted) ==
    IF Len(list) = 0 THEN sorted
    ELSE SortBySim(Tail(list), InsertBySim(sorted, Head(list)))

\* a store that pushes every record
upsertAlwaysPush(recs, rec) == Append(recs, rec)

\* ragEngine.ts:51-58, for one record
upsert(recs, rec) ==
    IF \E i \in 1..Len(recs) : recs[i].id = rec.id
    THEN [recs EXCEPT ![CHOOSE i \in 1..Len(recs) : recs[i].id = rec.id] = rec]
    ELSE Append(recs, rec)

\* ragEngine.ts:51-58
RECURSIVE upsertManyRecords(_, _)
upsertManyRecords(recs, batch) ==
    IF Len(batch) = 0 THEN recs
    ELSE upsertManyRecords(upsert(recs, Head(batch)), Tail(batch))

\* ragEngine.ts:60-64
query(recs, vector, k) ==
    LET scored == [i \in 1..Len(recs) |->
                      [r |-> recs[i], score |-> cosineSim(vector, recs[i].vector)]]
        sorted == SortBySim(scored, <<>>)
        top == Take(sorted, k)
    IN  [i \in 1..Len(top) |-> top[i].r]

\* ragEngine.ts:27-31; a Document is the record without its vector
ragSearch(recs, q, k) ==
    LET results == query(recs, Embed(q), k)
    IN  [i \in 1..Len(results) |-> [id |-> results[i].id, content |-> results[i].content]]

-----------------------------------------------------------------------------
(* HybridRetriever (part_002:228-436).  A score is kept as the fraction num / den;
   the rounding of floating point arithmetic is left out. *)

GNode(id, type) == [id |-> id, type |-> type]

NullGraph == [null |-> TRUE, nodes |-> <<>>, edges |-> <<>>]

EmptyGraph == [null |-> FALSE, nodes |-> <<>>, edges |-> <<>>]

\* part_002:54-108, the import cycle file0 -> file1 -> file2 -> file0
Cycle3 ==
    [null |-> FALSE,
     nodes |-> <<GNode("file:" \o PathA, "file"), GNode("file:" \o PathB, "file"),
                 GNode("file:" \o PathC, "file"),
                 GNode("function:" \o PathA \o ":main", "function")>>,
     edges |-> <<Edge("file:" \o PathA, "file:" \o PathB, "imports"),
                 Edge("file:" \o PathB, "file:" \o PathC, "imports"),
                 Edge("file:" \o PathC, "file:" \o PathA, "imports"),
                 Edge("function:" \o PathA \o ":main",
                      "function:" \o PathB \o ":helper", "calls"),
                 Edge("file:" \o PathA, "function:" \o PathA \o ":main", "contains")>>]

\* file1 imports three bindings of file0, one of file2 and one of itself; file2 calls
\* into file0
Hub ==
    [null |-> FALSE,
     nodes |-> <<GNode("file:" \o PathA, "file"), GNode("file:" \o PathB, "file"),
                 GNode("file:" \o PathC, "file"),
                 GNode("function:" \o PathA \o ":main", "function")>>,
     edges |-> <<Edge("file:" \o PathB, "file:" \o PathA, "imports"),
                 Edge("file:" \o PathB, "file:" \o PathA, "imports"),
                 Edge("file:" \o PathB, "file:" \o PathA, "imports"),
                 Edge("file:" \o PathB, "file:" \o PathC, "imports"),
                 Edge("file:" \o PathB, "file:" \o PathB, "imports"),
                 Edge("file:" \o PathC, "function:" \o PathA \o ":main", "calls"),
                 Edge("file:" \o PathA, "function:" \o PathA \o ":main", "contains")>>]

\* file0 imports three bindings of file1, and file1 four bindings of file2
Chain ==
    [null |-> FALSE,
     nodes |-> <<GNode("file:" \o PathA, "file"), GNode("file:" \o PathB, "file"),
                 GNode("file:" \o PathC, "file")>>,
     edges |-> <<Edge("file:" \o PathA, "file:" \o PathB, "imports"),
                 Edge("file:" \o PathA, "file:" \o PathB, "imports"),
                 Edge("file:" \o PathA, "file:" \o PathB, "imports"),
                 Edge("file:" \o PathB, "file:" \o PathC, "imports"),
                 Edge("file:" \o PathB, "file:" \o PathC, "imports"),
                 Edge("file:" \o PathB, "file:" \o PathC, "imports"),
                 Edge("file:" \o PathB, "file:" \o PathC, "imports")>>]

Graphs == {NullGraph, EmptyGraph, Cycle3, Hub, Chain}

\* part_002:396-410; Null stands for null
extractFilePath(content) == IF content.header = "File:" THEN content.path ELSE Null

CountEdges(g, type, end, id) ==
    Cardinality({i \in 1..Len(g.edges) : g.edges[i].type = type /\ g.edges[i][end] = id})

\* part_002:330-334, the keys of the connection map
IsFileNode(g, id) == \E i \in 1..Len(g.nodes) : g.nodes[i].id = id /\ g.nodes[i].type = "file"

\* part_002:337-348, the counters of one file node
Connections(g, id) ==
    [imports    |-> CountEdges(g, "imports", "source", id),
     importedBy |-> CountEdges(g, "imports", "target", id),
     calls      |-> CountEdges(g, "calls", "source", id),
     calledBy   |-> CountEdges(g, "calls", "target", id)]

\* a retriever for which one importer makes a central dependency
IsCentralFromOne(connections) == connections.importedBy > 0

\* part_002:290
IsCentral(connections) == connections.importedBy > 2

\* part_002:296
IsIntegrationPoint(connections) == connections.imports > 3

\* a retriever that also counts the other documents of the file itself
IsOtherFileAlways(docFileId, fileId) == TRUE

\* part_002:384
IsOtherFile(docFileId, fileId) == docFileId # fileId

\* part_002:356-390
countRelatedDocuments(g, fileId, documents) ==
    LET connectedFileIds ==
            {g.edges[i].target : i \in {j \in 1..Len(g.edges) :
                g.edges[j].source = fileId /\ g.edges[j].type = "imports"}}
            \cup
            {g.edges[i].source : i \in {j \in 1..Len(g.edges) :
                g.edges[j].target = fileId /\ g.edges[j].type = "imports"}}
    IN  Cardinality({i \in 1..Len(documents) :
            LET docFilePath == extractFilePath(documents[i].content) IN
            /\ docFilePath # Null /\ docFilePath # ""
            /\ IsOtherFile("file:" \o docFilePath, fileId)
            /\ ("file:" \o docFilePath) \in connectedFileIds})

\* part_002:268, 1.0 / (index + 1) for the 0-based index
InitialScore(index) == [num |-> 10, den |-> 10 * (index + 1)]

\* part_002:287-309, the score of the document at the 0-based index
BoostedScore(g, documents, index) ==
    LET doc == documents[index + 1]
        filePath == extractFilePath(doc.content)
        fileId == "file:" \o filePath
        connections == Connections(g, fileId)
        relatedCount == countRelatedDocuments(g, fileId, documents)
        boostMultiplier == 10 + (IF IsCentral(connections) THEN 3 ELSE 0)
                              + (IF IsIntegrationPoint(connections) THEN 2 ELSE 0)
                              + (IF relatedCount > 0 THEN 4 * relatedCount ELSE 0)
    IN  IF filePath = Null \/ filePath = "" THEN InitialScore(index)
        ELSE IF ~IsFileNode(g, fileId) THEN InitialScore(index)
        ELSE [num |-> boostMultiplier, den |-> 10 * (index + 1)]

\* part_002:265-313
scoreWithGraphBoost(g, documents) ==
    [i \in 1..Len(documents) |->
        [id |-> documents[i].id, content |-> documents[i].content,
         score |-> IF g.null THEN InitialScore(i - 1) ELSE BoostedScore(g, documents, i - 1)]]

\* a comparison under which a document overtakes the documents of equal score
ScoreGreaterOrEqual(x, y) == x.num * y.den >= y.num * x.den

\* part_002:258, b.score - a.score > 0 on fractions
ScoreGreater(x, y) == x.num * y.den > y.num * x.den

\* part_002:258, the stable sort by descending score
RECURSIVE InsertByScore(_, _)
InsertByScore(sorted, x) ==
    IF Len(sorted) = 0 THEN <<x>>
    ELSE IF ScoreGreater(x.score, Head(sorted).score) THEN <<x>> \o sorted
    ELSE <<Head(sorted)>> \o InsertByScore(Tail(sorted), x)

RECURSIVE SortByScore(_, _)
SortByScore(list, sorted) ==
    IF Len(list) = 0 THEN sorted
    ELSE SortByScore(Tail(list), InsertByScore(sorted, Head(list)))

\* a retriever that never falls back
UseFallbackNever(g) == FALSE

\* part_002:250
UseFallback(g) == g.null \/ Len(g.nodes) = 0

\* part_002:245-260, as [the candidates fetched, their scores, the documents returned]
searchResult(recs, g, q, k) ==
    LET initialResults == ragSearch(recs, q, k * 3)
        scoredResults == scoreWithGraphBoost(g, initialResults)
    IN  IF UseFallback(g)
        THEN [initial |-> initialResults, scored |-> <<>>,
              results |-> Take(initialResults, k)]
        ELSE [initial |-> initialResults, scored |-> scoredResults,
              results |-> Take(SortByScore(scoredResults, <<>>), k)]

NoSearch == [query |-> "", k |-> 0, initial |-> <<>>, scored |-> <<>>, results |-> <<>>,
             done |-> FALSE]

\* InMemoryVectorStore.upsertMany with one record
upsertMany(id, content, vector) ==
    /\ id \in {DocId(n) : n \in 1..Min2(Len(records) + 1, MaxDocs)}
    /\ records' = upsert(records, [id |-> id, content |-> content, vector |-> vector])
    /\ records' # records
    /\ lastSearch' = NoSearch
    /\ UNCHANGED retrieverGraph

\* HybridRetriever.search
search(q, k) ==
    LET r == searchResult(records, retrieverGraph, q, k) IN
    /\ lastSearch' = [query |-> q, k |-> k, initial |-> r.initial, scored |-> r.scored,
                      results |-> r.results, done |-> TRUE]
    /\ UNCHANGED <<records, retrieverGraph>>

SearchIdle ==
    /\ records = <<>>
    /\ retrieverGraph = NullGraph
    /\ lastSearch = NoSearch

\* the search specification leaves the other components untouched
SearchFrame == UNCHANGED <<cacheVars, graphVars, storeVars, concVars, embVars, indexVars,
                           queryVars, qcacheVars, retryVars, persistVars>>

NextSearch ==
    \/ \E n \in 1..MaxDocs, content \in Contents, vector \in Vectors :
           upsertMany(DocId(n), content, vector) /\ SearchFrame
    \/ \E q \in Queries, k \in 0..MaxK : search(q, k) /\ SearchFrame

\* the documents of a project whose graph buildCompleteGraph built
ProjectContents ==
    {FileLine(PathStr(Path(FALSE, <<"src", "a.ts">>))),
     FileLine(PathStr(Path(FALSE, <<"src", "b.ts">>))), Prose}

\* new HybridRetriever(rag, graph) with the CodeGraph a builder returned
CodeGraphOf(g) == [null |-> FALSE, nodes |-> g.nodes, edges |-> g.edges]

NextHybrid ==
    \/ \E n \in 1..MaxDocs, content \in ProjectContents, vector \in Vectors :
           upsertMany(DocId(n), content, vector) /\ SearchFrame
    \/ \E q \in Queries, k \in 0..MaxK : search(q, k) /\ SearchFrame

-----------------------------------------------------------------------------
(* InMemoryVectorStore on its own (ragEngine.ts:48-65): batches of records, and
   queries *)

StoreIds == {"d1", "d2", "d3"}

\* <<1, 0>> and <<2, 0>> point the same way; the 1e-9 of cosineSim tells them apart;
\* <<1, 0, 0>> is a vector of another embedder
StoreVectors == {<<1, 0>>, <<2, 0>>, <<1, 0, 0>>}

StoreRecords == {[id |-> id, content |-> Prose, vector |-> vector] :
                    id \in StoreIds, vector \in StoreVectors}

\* the batches upsertMany is called with: one record, or two (of one id or of two)
Batches == {<<r>> : r \in StoreRecords} \cup {<<r1, r2>> : r1, r2 \in StoreRecords}

NoStoreOp == [op |-> "none", batch |-> <<>>, vector |-> <<>>, k |-> 0, before |-> <<>>,
              result |-> <<>>]

\* ragEngine.ts:51-58
storeUpsertMany(batch) ==
    /\ records' = upsertManyRecords(records, batch)
    /\ storeOp' = [NoStoreOp EXCEPT !.op = "upsertMany", !.batch = batch,
                                    !.before = records]

\* ragEngine.ts:60-64
storeQuery(vector, k) ==
    /\ storeOp' = [NoStoreOp EXCEPT !.op = "query", !.vector = vector, !.k = k,
                                    !.before = records,
                                    !.result = query(records, vector, k)]
    /\ UNCHANGED records

StoreIdle == storeOp = NoStoreOp

StoreFrame == UNCHANGED <<cacheVars, graphVars, retrieverGraph, lastSearch, concVars,
                          embVars, indexVars, queryVars, qcacheVars, retryVars,
                          persistVars>>

NextStore ==
    \/ \E batch \in Batches : storeUpsertMany(batch) /\ StoreFrame
    \/ \E vector \in Vectors, k \in 0..(MaxK + 1) : storeQuery(vector, k) /\ StoreFrame

-----------------------------------------------------------------------------
(* HybridRetriever.search calls that overlap (part_002:245-260): a call suspends at
   `await this.rag.search(query, k * 3)`, the vector store is queried while it is
   suspended, and the call goes on from its own initialResults *)

MaxPending == 2     \* search calls under way at one time

\* the stores the retriever searches
StoreAB == <<[id |-> DocId(1), content |-> FileLine(PathB), vector |-> <<1, 0>>],
             [id |-> DocId(2), content |-> Prose, vector |-> <<1, 0>>],
             [id |-> DocId(3), content |-> FileLine(PathA), vector |-> <<0, 1>>]>>

StoreBB == <<[id |-> DocId(1), content |-> Prose, vector |-> <<0, 1>>],
             [id |-> DocId(2), content |-> FileLine(PathB), vector |-> <<1, 0>>],
             [id |-> DocId(3), content |-> FileLine(PathB), vector |-> <<1, 0>>],
             [id |-> DocId(4), content |-> FileLine(PathA), vector |-> <<1, 0>>]>>

Stores == {StoreAB, StoreBB}

\* part_002:247
searchCall(q, k) ==
    /\ Len(pending) < MaxPending
    /\ pending' = Append(pending, [query |-> q, k |-> k, queried |-> FALSE,
                                   initialResults |-> <<>>])
    /\ UNCHANGED <<records, retrieverGraph, lastSearch, finished, stats>>

\* ragEngine.ts:27-31 for the i-th suspended call
searchQueryStore(i) ==
    /\ ~pending[i].queried
    /\ pending' = [pending EXCEPT ![i].queried = TRUE,
                       ![i].initialResults = ragSearch(records, pending[i].query,
                                                       pending[i].k * 3)]
    /\ UNCHANGED <<records, retrieverGraph, lastSearch, finished, stats>>

\* a retriever that keeps initialResults in a field all calls share
InitialResultsShared(calls, i) == calls[Len(calls)].initialResults

\* part_002:247: initialResults is a local of the call
InitialResultsOf(calls, i) == calls[i].initialResults

\* part_002:249-259 on the candidates the call fetched
searchFrom(initialResults, g, k) ==
    IF UseFallback(g) THEN Take(initialResults, k)
    ELSE LET scored == scoreWithGraphBoost(g, initialResults)
         IN  Take(SortByScore(scored, <<>>), k)

NoFinished == [query |-> "", k |-> 0, results |-> <<>>, done |-> FALSE]

\* part_002:249-259: the i-th suspended call goes on and returns
searchResume(i) ==
    /\ pending[i].queried
    /\ finished' = [query |-> pending[i].query, k |-> pending[i].k,
                    results |-> searchFrom(InitialResultsOf(pending, i), retrieverGraph,
                                           pending[i].k),
                    done |-> TRUE]
    /\ pending' = RemoveAt(pending, i)
    /\ UNCHANGED <<records, retrieverGraph, lastSearch, stats>>

NoStats == [null |-> TRUE, nodes |-> 0, edges |-> 0, files |-> 0, functions |-> 0,
            imports |-> 0, calls |-> 0]

CountWhere(list, type) == Cardinality({i \in 1..Len(list) : list[i].type = type})

\* part_002:415-435
getGraphStats(g) ==
    IF g.null THEN NoStats
    ELSE [null |-> FALSE, nodes |-> Len(g.nodes), edges |-> Len(g.edges),
          files |-> CountWhere(g.nodes, "file"),
          functions |-> CountWhere(g.nodes, "function"),
          imports |-> CountWhere(g.edges, "imports"),
          calls |-> CountWhere(g.edges, "calls")]

NotAsked == [NoStats EXCEPT !.nodes = 0 - 1]

GetGraphStats ==
    /\ stats' = getGraphStats(retrieverGraph)
    /\ stats' # stats
    /\ UNCHANGED <<records, retrieverGraph, lastSearch, pending, finished>>

ConcIdle ==
    /\ pending = <<>>
    /\ finished = NoFinished
    /\ stats = NotAsked

ConcFrame == UNCHANGED <<cacheVars, graphVars, storeVars, embVars, indexVars, queryVars,
                         qcacheVars, retryVars, persistVars>>

NextConc ==
    \/ \E q \in Queries, k \in 0..MaxK : searchCall(q, k) /\ ConcFrame
    \/ \E i \in 1..Len(pending) : searchQueryStore(i) /\ ConcFrame
    \/ \E i \in 1..Len(pending) : searchResume(i) /\ ConcFrame
    \/ GetGraphStats /\ ConcFrame

-----------------------------------------------------------------------------
(* 32-bit integer arithmetic of JavaScript's bitwise operators.  An int32 is kept as
   its two 16-bit halves, [hi, lo], so that no intermediate value leaves the range of
   the model checker's integers.  A text is the sequence of its UTF-16 code units. *)

Half == 256 * 256

Word(hi, lo) == [hi |-> hi, lo |-> lo]

\* the halves of hi * 65536 + lo for any integers hi and lo: ToInt32
ToInt32(hi, lo) == Word((hi + (lo \div Half)) % Half, lo % Half)

\* the signed value of the upper half
SignedHi(w) == IF w.hi >= Half \div 2 THEN w.hi - Half ELSE w.hi

\* the number an int32 stands for
Signed(w) == SignedHi(w) * Half + w.lo

Pow2(k) == 2 ^ k

\* w << k, for k in 0..31
Shl(w, k) ==
    IF k >= 16 THEN Word((w.lo * Pow2(k - 16)) % Half, 0)
    ELSE ToInt32((w.hi * Pow2(k)) % Half, w.lo * Pow2(k))

\* a ^ b on two 16-bit numbers
RECURSIVE Xor16(_, _)
Xor16(a, b) ==
    IF a = 0 THEN b
    ELSE IF b = 0 THEN a
    ELSE (((a % 2) + (b % 2)) % 2) + 2 * Xor16(a \div 2, b \div 2)

Digits36 == <<"0", "1", "2", "3", "4", "5", "6", "7", "8", "9", "a", "b", "c", "d", "e",
              "f", "g", "h", "i", "j", "k", "l", "m", "n", "o", "p", "q", "r", "s", "t",
              "u", "v", "w", "x", "y", "z">>

\* Number.prototype.toString(36) of a non-negative halves pair: long division by 36
ToString36U(hi, lo) ==
    LET Digits[n \in [hi : Nat, lo : Nat]] ==
            LET rest == (n.hi % 36) * Half + n.lo
                digit == Digits36[(rest % 36) + 1]
                qhi == n.hi \div 36
                qlo == rest \div 36
            IN  IF qhi = 0 /\ qlo = 0 THEN digit
                ELSE Digits[[hi |-> qhi + (qlo \div Half), lo |-> qlo % Half]] \o digit
    IN  Digits[[hi |-> hi, lo |-> lo]]

\* hash.toString(36) of an int32: a '-' and the digits of the magnitude when negative
ToString36(w) ==
    IF SignedHi(w) >= 0 THEN ToString36U(w.hi, w.lo)
    ELSE LET m == ToInt32(Half - 1 - w.hi, Half - w.lo)   \* 2^32 - w
         IN "-" \o ToString36U(m.hi, m.lo)

\* cache.ts:187-196: hash = (hash << 5) - hash + char, cut to 32 bits at every step
HashFrom(text, i, hash) ==
    LET Loop[st \in [i : Nat, hash : [hi : Int, lo : Int]]] ==
            IF st.i > Len(text) THEN st.hash
            ELSE LET s == Shl(st.hash, 5)
                 IN  Loop[[i |-> st.i + 1,
                           hash |-> ToInt32(s.hi - st.hash.hi,
                                            s.lo - st.hash.lo + text[st.i])]]
    IN  Loop[[i |-> i, hash |-> hash]]

createKey(text) == "emb_" \o ToString36(HashFrom(text, 1, Word(0, 0)))

\* tui.tsx:844, the FNV offset basis 2166136261 = 0x811C9DC5
FnvBasis == Word(33052, 40389)

\* tui.tsx:847-848: h1 ^= c; h1 += (h1 << 1) + (h1 << 4) + (h1 << 7) + (h1 << 8) + (h1 << 24).
\* The ^ cuts h1 to 32 bits, the sum is not cut: it is kept as hi * 65536 + lo with
\* lo in 0..65535 and hi of either sign
HashStep(h, c) ==
    LET Sum[x \in [hi : Nat, lo : Nat]] ==
            LET hi == SignedHi(x) + SignedHi(Shl(x, 1)) + SignedHi(Shl(x, 4))
                          + SignedHi(Shl(x, 7)) + SignedHi(Shl(x, 8)) + SignedHi(Shl(x, 24))
                lo == x.lo + Shl(x, 1).lo + Shl(x, 4).lo + Shl(x, 7).lo + Shl(x, 8).lo
                          + Shl(x, 24).lo
            IN  Word(hi + (lo \div Half), lo % Half)
        w == ToInt32(h.hi, h.lo)
    IN  Sum[Word(w.hi, Xor16(w.lo, c))]

\* tui.tsx:849: Math.abs(h1) % dim
AbsMod(h, dim) ==
    IF h.hi >= 0 THEN ((h.hi % dim) * (Half % dim) + h.lo) % dim
    ELSE ((((-h.hi) % dim) * (Half % dim)) + dim * Half - h.lo) % dim

\* tui.tsx:846-851: the indices the characters of the text hit, in text order
HitsFrom(text, i, h, dim) ==
    LET Loop[st \in [i : Nat, h : [hi : Int, lo : Int]]] ==
            IF st.i > Len(text) THEN <<>>
            ELSE LET h2 == HashStep(st.h, text[st.i])
                 IN  <<AbsMod(h2, dim)>> \o Loop[[i |-> st.i + 1, h |-> h2]]
    IN  Loop[[i |-> i, h |-> h]]

\* tui.tsx:843-854.  The vector v / norm is kept as the counts v of the indices hit
\* (all other components are 0) and the square of norm; norm is 1 for the zero vector.
\* The sum of v * v over the indices is the sum, over the hits, of the count of the index
\* that is hit
hashToVector(text, dim) ==
    LET Vector[hits \in Seq(Nat)] ==
            LET vec == [idx \in Range(hits) |->
                           Cardinality({i \in 1..Len(hits) : hits[i] = idx})]
                normSq == SumTo([i \in 1..Len(hits) |-> vec[hits[i]]], Len(hits))
            IN  [dim |-> dim, vec |-> vec, normSq |-> IF normSq = 0 THEN 1 ELSE normSq]
    IN  Vector[HitsFrom(text, 1, FnvBasis, dim)]

-----------------------------------------------------------------------------
(* EmbeddingCache.getOrCompute (cache.ts:201-212).  The call reads the cache and, on a
   miss, invokes computeFn and suspends; when computeFn resolves the call stores the
   vector and returns.  Other calls run while a call is suspended. *)

MaxInflight == 2    \* calls suspended at `await computeFn()` at one time
MaxComputes == 2    \* computeFn invocations per text

\* 'Aa' and 'BB' hash to the same key, 'a' to another
TextAa == <<65, 97>>
TextBB == <<66, 66>>
TextA  == <<97>>
Texts == {TextAa, TextBB, TextA}

\* 'test', commands.ts:35
TextTest == <<116, 101, 115, 116>>

\* what the n-th invocation of computeFn for a text resolves to: as in the cache's
\* test, every invocation produces a vector of its own
Computed(text, n) == [dim |-> 0, vec |-> <<text, n>>, normSq |-> 1]

NoReturn == [text |-> <<>>, vector |-> Computed(<<>>, 0), from |-> "none"]

\* cache.ts:202-209: up to the await
getOrComputeCall(text) ==
    LET key == createKey(text)
        r == GetResult(cache, key, now)
    IN  /\ MapHas(cache, key) => MapGet(cache, key).accessCount < MaxAccessCount
        /\ cache' = r.cache
        /\ IF MapHas(r.cache, key)     \* `if (cached)`: a vector is truthy
           THEN /\ returned' = [text |-> text, vector |-> r.ret, from |-> "cache"]
                /\ UNCHANGED <<inflight, computeCount>>
           ELSE /\ Len(inflight) < MaxInflight
                /\ computeCount[text] < MaxComputes
                /\ computeCount' = [computeCount EXCEPT ![text] = @ + 1]
                /\ inflight' = Append(inflight, [text |-> text, key |-> key,
                                                 n |-> computeCount'[text]])
                /\ UNCHANGED returned
        /\ UNCHANGED <<maxSize, ttl, now, audit, lastOp, recency, scn>>

\* cache.ts:209-211: computeFn of the i-th suspended call resolves
getOrComputeResume(i) ==
    LET call == inflight[i]
        embedding == Computed(call.text, call.n)
    IN  /\ cache' = SetResult(cache, maxSize, call.key, embedding, now)
        /\ inflight' = RemoveAt(inflight, i)
        /\ returned' = [text |-> call.text, vector |-> embedding, from |-> "compute"]
        /\ UNCHANGED <<computeCount, maxSize, ttl, now, audit, lastOp, recency, scn>>

\* the clock of the embedding cache
EmbTick == Tick /\ UNCHANGED <<inflight, computeCount, returned>>

EmbIdle ==
    /\ inflight = <<>>
    /\ computeCount = [t \in Texts |-> 0]
    /\ returned = NoReturn

EmbFrame == UNCHANGED <<graphVars, searchVars, storeVars, concVars, indexVars, queryVars,
                        qcacheVars, retryVars, persistVars>>

NextEmbedding ==
    \/ \E text \in Texts : getOrComputeCall(text) /\ EmbFrame
    \/ \E i \in 1..Len(inflight) : getOrComputeResume(i) /\ EmbFrame
    \/ EmbTick /\ EmbFrame

-----------------------------------------------------------------------------
(* The embedders (part_002:205-226, tui.tsx:659-855) and the embedding half of cmdIndex
   (commands.ts:30-50).  A vector is [dim, vec, normSq]: the components vec divided by
   the square root of normSq. *)

MaxRuns == 2        \* runs of cmdIndex

HashDim == 384      \* tui.tsx:750
RandomDim == 256    \* commands.ts:39

\* where LM Studio may fail during one embed call
ProviderOutcomes == {"ok", "getThrows", "modelNull", "timeout", "completeThrows"}

\* the symbol texts of a project; overloads give two documents of the same text
DocLists == {<<TextA>>, <<TextA, TextA>>, <<TextAa, TextBB>>}

\* Math.random(): two of the vectors RandomEmbedder may produce
RandomVectors == {[dim |-> RandomDim, vec |-> <<r>>, normSq |-> 1] : r \in 1..2}

\* tui.tsx:700-755: the model lookup, the completion and the validation of the text may
\* fail; the try and the catch return the same hash vector
computeEmbedding(text, outcome) ==
    IF Len(text) = 0 THEN hashToVector(text, HashDim)           \* LLMError, caught
    ELSE IF outcome = "ok" THEN hashToVector(text, HashDim)     \* tui.tsx:750
    ELSE hashToVector(text, HashDim)                            \* tui.tsx:753

\* tui.tsx:688-698 with cache.ts:201-212, the calls of getEmbeddings run one after the
\* other: [cache after, vector, whether computeEmbedding ran].  `cached` is the one
\* result of this.get(key)
getEmbedding(m, cap, text, outcome, t) ==
    LET key == createKey(text)
    IN  CHOOSE res \in
            {IF MapHas(cached.cache, key)
             THEN [cache |-> cached.cache, vector |-> cached.ret, computed |-> FALSE]
             ELSE [cache |-> SetResult(cached.cache, cap, key,
                                       computeEmbedding(text, outcome), t),
                   vector |-> computeEmbedding(text, outcome), computed |-> TRUE] :
                 cached \in {GetResult(m, key, t)}} : TRUE

\* tui.tsx:757-763: `first` is the one result of the first await, `rest` that of the
\* awaits after it
RECURSIVE getEmbeddings(_, _, _, _, _)
getEmbeddings(m, cap, texts, outcome, t) ==
    IF Len(texts) = 0 THEN [cache |-> m, out |-> <<>>]
    ELSE CHOOSE res \in
             UNION {{[cache |-> rest.cache,
                      out |-> <<[vector |-> first.vector, computed |-> first.computed]>>
                                  \o rest.out] :
                         rest \in {getEmbeddings(first.cache, cap, Tail(texts), outcome, t)}} :
                     first \in {getEmbedding(m, cap, Head(texts), outcome, t)}} : TRUE

\* history: an embedding some embedder computed, and whether it was a fallback one
\* (RandomEmbedder, or the catch branch of computeEmbedding)
Logged(by, fallback, text, vector) ==
    [by |-> by, fallback |-> fallback, text |-> text, vector |-> vector]

LogOf(texts, out, outcome) ==
    {Logged("LmStudioEmbedder", outcome # "ok" \/ Len(texts[i]) = 0, texts[i], out[i].vector) :
        i \in {j \in 1..Len(texts) : out[j].computed}}

\* commands.ts:43-47 with ragEngine.ts:18-23; the id starts with the document's index
IndexRecords(texts, vectors) ==
    [i \in 1..Len(texts) |->
        [id |-> ToString(i - 1), text |-> texts[i], vector |-> vectors[i]]]

\* commands.ts:32-40: new LmStudioEmbedder() succeeds or throws
NewEmbedder(thrown) ==
    /\ indexPc = "start"
    /\ IF thrown
       THEN /\ embedder' = "RandomEmbedder"
            /\ indexPc' = "index"
            /\ UNCHANGED cache
       ELSE /\ embedder' = "LmStudioEmbedder"
            /\ indexPc' = "probe"
            /\ cache' = <<>>      \* tui.tsx:675, a cache of its own
    /\ UNCHANGED <<records, embedLog, runs, maxSize, ttl, now, audit, lastOp, recency, scn>>

\* commands.ts:35: embedder.embed(['test']) never throws
ProbeEmbedder(outcome) ==
    \E r \in {getEmbeddings(cache, maxSize, <<TextTest>>, outcome, now)} :
    /\ indexPc = "probe"
    /\ cache' = r.cache
    /\ embedLog' = embedLog \cup LogOf(<<TextTest>>, r.out, outcome)
    /\ indexPc' = "index"
    /\ UNCHANGED <<records, embedder, runs, maxSize, ttl, now, audit, lastOp, recency, scn>>

\* commands.ts:42-48 with the LM Studio embedder
IndexWithLmStudio(texts, outcome) ==
    \E r \in {getEmbeddings(cache, maxSize, texts, outcome, now)} :
    /\ indexPc = "index"
    /\ embedder = "LmStudioEmbedder"
    /\ cache' = r.cache
    /\ embedLog' = embedLog \cup LogOf(texts, r.out, outcome)
    /\ records' = upsertManyRecords(<<>>, IndexRecords(texts,
                        [i \in 1..Len(texts) |-> r.out[i].vector]))
    /\ indexPc' = "done"
    /\ UNCHANGED <<embedder, runs, maxSize, ttl, now, audit, lastOp, recency, scn>>

\* commands.ts:42-48 with the random embedder (part_002:211-213)
IndexWithRandom(texts, vectors) ==
    /\ indexPc = "index"
    /\ embedder = "RandomEmbedder"
    /\ Len(vectors) = Len(texts)
    /\ embedLog' = embedLog \cup
                   {Logged("RandomEmbedder", TRUE, texts[i], vectors[i]) : i \in 1..Len(texts)}
    /\ records' = upsertManyRecords(<<>>, IndexRecords(texts, vectors))
    /\ indexPc' = "done"
    /\ UNCHANGED <<cache, embedder, runs, maxSize, ttl, now, audit, lastOp, recency, scn>>

\* the command is run again
RunAgain ==
    /\ indexPc = "done"
    /\ runs < MaxRuns
    /\ runs' = runs + 1
    /\ indexPc' = "start"
    /\ embedder' = "none"
    /\ UNCHANGED <<cache, records, embedLog, maxSize, ttl, now, audit, lastOp, recency, scn>>

IndexIdle ==
    /\ embedder = "none"
    /\ indexPc = "start"
    /\ embedLog = {}
    /\ runs = 1

IndexFrame == UNCHANGED <<graphVars, retrieverGraph, lastSearch, storeVars, concVars,
                          embVars, queryVars, qcacheVars, retryVars, persistVars>>

NextIndex ==
    \/ \E thrown \in BOOLEAN : NewEmbedder(thrown) /\ IndexFrame
    \/ \E outcome \in ProviderOutcomes : ProbeEmbedder(outcome) /\ IndexFrame
    \/ \E texts \in DocLists, outcome \in ProviderOutcomes :
           IndexWithLmStudio(texts, outcome) /\ IndexFrame
    \/ \E texts \in DocLists :
           \E vectors \in [1..Len(texts) -> RandomVectors] :
               IndexWithRandom(texts, vectors) /\ IndexFrame
    \/ RunAgain /\ IndexFrame

-----------------------------------------------------------------------------
(* retry (errors.ts:102-138): fn is called, awaited, and called again after a sleep *)

MaxAttempts == 3

\* errors.ts:114-116, the defaults of the options the callers leave out
initialDelay == 1000
maxDelay == 10000
backoffFactor == 2

\* what fn may resolve with, and what it may throw
FnValues == {"v1", "v2"}
FnErrors == {"e1", "e2"}

\* the value of lastError before any attempt failed
Undefined == "<undefined>"

Event(ev, n, value) == [ev |-> ev, attempt |-> n, value |-> value]

NoOutcome == [kind |-> "pending", value |-> Undefined]

\* a loop that goes on after the last attempt
HasAttemptsLeftAlways(n, max) == TRUE

\* errors.ts:129
HasAttemptsLeft(n, max) == n < max

\* errors.ts:123-125, the loop test and what follows it: the next call of fn, or
\* `throw lastError` at line 137
LoopTest(n, error) ==
    IF n <= options.maxAttempts
    THEN /\ retryPc' = "fn"
         /\ trace' = Append(trace, Event("call", n, ""))
         /\ retryOut' = retryOut
    ELSE /\ retryPc' = "rejected"
         /\ trace' = trace
         /\ retryOut' = [kind |-> "rejected", value |-> error]

\* errors.ts:102-125, up to the first `await fn()`
retry(max, onRetry) ==
    /\ retryPc = "idle"
    /\ options' = [maxAttempts |-> max, onRetry |-> onRetry]
    /\ lastError' = Undefined
    /\ delay' = initialDelay
    /\ attempt' = 1
    /\ IF 1 <= max
       THEN /\ retryPc' = "fn"
            /\ trace' = <<Event("call", 1, "")>>
            /\ retryOut' = NoOutcome
       ELSE /\ retryPc' = "rejected"
            /\ trace' = <<>>
            /\ retryOut' = [kind |-> "rejected", value |-> Undefined]

\* errors.ts:125, fn's promise is fulfilled
FnResolves(value) ==
    /\ retryPc = "fn"
    /\ retryPc' = "resolved"
    /\ trace' = Append(trace, Event("return", attempt, value))
    /\ retryOut' = [kind |-> "resolved", value |-> value]
    /\ UNCHANGED <<options, attempt, lastError, delay>>

\* errors.ts:126-134, fn throws or its promise is rejected
FnRejects(error) ==
    /\ retryPc = "fn"
    /\ lastError' = error
    /\ IF HasAttemptsLeft(attempt, options.maxAttempts)
       THEN /\ trace' = Append(trace, Event("throw", attempt, error))
                        \o (IF options.onRetry
                            THEN <<Event("onRetry", attempt, error)>> ELSE <<>>)
            /\ retryPc' = "sleep"
            /\ UNCHANGED <<attempt, retryOut>>
       ELSE /\ attempt' = attempt + 1
            /\ IF attempt + 1 <= options.maxAttempts
               THEN /\ retryPc' = "fn"
                    /\ trace' = Append(trace, Event("throw", attempt, error))
                                \o <<Event("call", attempt + 1, "")>>
                    /\ retryOut' = retryOut
               ELSE /\ retryPc' = "rejected"
                    /\ trace' = Append(trace, Event("throw", attempt, error))
                    /\ retryOut' = [kind |-> "rejected", value |-> error]
    /\ UNCHANGED <<options, delay>>

\* errors.ts:131-132 and 123-125: the sleep is over
Wake ==
    /\ retryPc = "sleep"
    /\ delay' = Min2(delay * backoffFactor, maxDelay)
    /\ attempt' = attempt + 1
    /\ LoopTest(attempt + 1, lastError)
    /\ UNCHANGED <<options, lastError>>

\* retry has not been called
RetryIdle ==
    /\ retryPc = "idle"
    /\ options = [maxAttempts |-> 0, onRetry |-> FALSE]
    /\ attempt = 0
    /\ delay = 0
    /\ lastError = Undefined
    /\ trace = <<>>
    /\ retryOut = NoOutcome

RetryFrame == UNCHANGED <<cacheVars, graphVars, searchVars, storeVars, concVars, embVars,
                          indexVars, queryVars, qcacheVars, persistVars>>

NextRetry ==
    \/ \E max \in 0..MaxAttempts, onRetry \in BOOLEAN : retry(max, onRetry) /\ RetryFrame
    \/ \E value \in FnValues : FnResolves(value) /\ RetryFrame
    \/ \E error \in FnErrors : FnRejects(error) /\ RetryFrame
    \/ Wake /\ RetryFrame

-----------------------------------------------------------------------------
(* SemanticCache with its snapshot file (cache.ts:32-50, 126-128 and 168-177): load is
   suspended at `await readJson(...)` while other calls run *)

PersistKeys == {"k1", "k2"}

\* an entry of the snapshot, written by an earlier process
Persisted(key, timestamp) ==
    [key |-> key, value |-> "p1", timestamp |-> timestamp, accessCount |-> 0]

\* what the file at persistPath may hold; readJson gives [] for a missing file
Snapshots ==
    {<<>>,
     <<Persisted("k1", 0)>>,
     <<Persisted("k1", 0 - 1), Persisted("k2", 0)>>,
     <<Persisted("k1", 0), Persisted("k2", 0 - ttlMs - 1), Persisted("", 0 - ttlMs)>>}

\* the keys a pattern matches: /^k1$/ and /^k/
Patterns == {{"k1"}, {"k1", "k2"}}

NotLoading == [pc |-> "idle", entries |-> <<>>]

\* a load that takes every entry of the snapshot
IsFreshAlways(entry, t) == TRUE

\* cache.ts:41
IsFresh(entry, t) == t - entry.timestamp < ttl

\* cache.ts:39-44
RECURSIVE LoadEntries(_, _, _)
LoadEntries(m, entries, t) ==
    IF Len(entries) = 0 THEN m
    ELSE LET entry == Head(entries)
         IN  LoadEntries(IF IsFresh(entry, t) THEN MapSet(m, entry.key, entry) ELSE m,
                         Tail(entries), t)

\* cache.ts:32-36, up to `await readJson(this.persistPath, [])`
loadCall ==
    /\ loading.pc # "reading"
    /\ loading' = [pc |-> "reading", entries |-> persistFile]
    /\ lastOp' = Op("loadCall", NoKey, Miss, "-")
    /\ UNCHANGED <<cache, maxSize, ttl, now, audit, recency, scn, persistFile>>

\* cache.ts:37-46, from the await on
loadResume ==
    /\ loading.pc = "reading"
    /\ cache' = LoadEntries(cache, loading.entries, now)
    /\ loading' = [loading EXCEPT !.pc = "done"]
    /\ lastOp' = Op("load", NoKey, Miss, "-")
    /\ UNCHANGED <<maxSize, ttl, now, audit, recency, scn, persistFile>>

\* cache.ts:126-128
clear ==
    /\ cache' = <<>>
    /\ lastOp' = Op("clear", NoKey, Miss, "-")
    /\ recency' = IF audit = "lru" THEN <<>> ELSE recency
    /\ scn' = IF audit = "lru" THEN NoScn ELSE scn
    /\ UNCHANGED <<maxSize, ttl, now, audit>>

\* cache.ts:168-177, for a pattern without the g and y flags
invalidatePattern(matching) ==
    LET count == Cardinality({i \in 1..Len(cache) : cache[i].key \in matching})
    IN  /\ cache' = SelectSeq(cache, LAMBDA e : e.key \notin matching)
        /\ lastOp' = Op("invalidatePattern", NoKey, ToString(count), "-")
        /\ recency' = IF audit = "lru"
                      THEN SelectSeq(recency, LAMBDA k : k \notin matching)
                      ELSE recency
        /\ scn' = IF audit = "lru" /\ count > 0 THEN NoScn ELSE scn
        /\ UNCHANGED <<maxSize, ttl, now, audit>>

\* no snapshot file, and load was never called
PersistIdle ==
    /\ persistFile = <<>>
    /\ loading = NotLoading

PersistFrame == UNCHANGED <<graphVars, searchVars, storeVars, concVars, embVars, indexVars,
                            queryVars, qcacheVars, retryVars>>

NextPersist ==
    \/ \E key \in PersistKeys, value \in CacheValues :
           set(key, value) /\ PersistFrame /\ UNCHANGED persistVars
    \/ \E key \in PersistKeys : get(key) /\ PersistFrame /\ UNCHANGED persistVars
    \/ \E key \in PersistKeys : has(key) /\ PersistFrame /\ UNCHANGED persistVars
    \/ Tick /\ PersistFrame /\ UNCHANGED persistVars
    \/ clear /\ PersistFrame /\ UNCHANGED persistVars
    \/ \E matching \in Patterns :
           invalidatePattern(matching) /\ PersistFrame /\ UNCHANGED persistVars
    \/ loadCall /\ PersistFrame
    \/ loadResume /\ PersistFrame

\* tui.tsx:674-684: the embedding cache of an LmStudioClient, whose constructor has
\* called load() and gone on; the snapshot holds a vector an earlier process computed
EmbeddingSnapshots ==
    {<<[key |-> createKey(TextA), value |-> Computed(TextA, 0), timestamp |-> 0,
        accessCount |-> 0]>>,
     <<[key |-> createKey(TextAa), value |-> Computed(TextAa, 0), timestamp |-> 0 - 1,
        accessCount |-> 0]>>}

NextClientCache ==
    \/ \E text \in Texts : getOrComputeCall(text) /\ EmbFrame
    \/ \E i \in 1..Len(inflight) : getOrComputeResume(i) /\ EmbFrame
    \/ EmbTick /\ EmbFrame
    \/ loadResume /\ PersistFrame

-----------------------------------------------------------------------------
(* Specifications *)

CacheIdle ==
    /\ cache = <<>>
    /\ maxSize = 1
    /\ ttl = ttlMs
    /\ now = 0
    /\ audit = "off"
    /\ lastOp = NoOp
    /\ recency = <<>>
    /\ scn = NoScn

\* no project on disk and a builder that has not been used
NoProject == disk = EmptyDisk /\ symbolsJson = <<>> /\ GraphIdle

\* a cache that no history is kept of
CacheOff ==
    /\ cache = <<>>
    /\ ttl = ttlMs
    /\ now = 0
    /\ audit = "off"
    /\ lastOp = NoOp
    /\ recency = <<>>
    /\ scn = NoScn

InitCache ==
    /\ InitCacheState /\ audit = "ops" /\ scn = NoScn
    /\ NoProject /\ SearchIdle /\ StoreIdle /\ ConcIdle /\ EmbIdle /\ IndexIdle
    /\ QueryIdle /\ QCacheIdle
    /\ RetryIdle
    /\ PersistIdle

InitCacheLru ==
    /\ InitCacheState /\ audit = "lru" /\ scn = [ok |-> TRUE, keys |-> <<>>]
    /\ NoProject /\ SearchIdle /\ StoreIdle /\ ConcIdle /\ EmbIdle /\ IndexIdle
    /\ QueryIdle /\ QCacheIdle
    /\ RetryIdle
    /\ PersistIdle

SpecCache == InitCache /\ [][NextCache]_vars

SpecCacheLru == InitCacheLru /\ [][NextCache]_vars

InitGraph ==
    /\ disk \in {d \in [PhysFiles -> UNION {ContentsOf(f) : f \in PhysFiles}] :
                    \A f \in PhysFiles : d[f] \in ContentsOf(f)}
    /\ symbolsJson \in KeyLists
    /\ GraphIdle
    /\ CacheIdle /\ SearchIdle /\ StoreIdle /\ ConcIdle /\ EmbIdle /\ IndexIdle
    /\ QueryIdle /\ QCacheIdle
    /\ RetryIdle
    /\ PersistIdle

InitSearch ==
    /\ records = <<>>
    /\ retrieverGraph \in Graphs
    /\ lastSearch = NoSearch
    /\ CacheIdle /\ NoProject /\ StoreIdle /\ ConcIdle /\ EmbIdle /\ IndexIdle
    /\ QueryIdle /\ QCacheIdle
    /\ RetryIdle
    /\ PersistIdle

SpecGraph == InitGraph /\ [][NextGraph]_vars

SpecSearch == InitSearch /\ [][NextSearch]_vars

\* the vector store on its own
InitStore ==
    /\ SearchIdle
    /\ StoreIdle
    /\ CacheIdle /\ NoProject /\ ConcIdle /\ EmbIdle /\ IndexIdle /\ QueryIdle /\ QCacheIdle
    /\ RetryIdle
    /\ PersistIdle

SpecStore == InitStore /\ [][NextStore]_vars

\* a retriever over a store and a graph that no longer change
InitConc ==
    /\ records \in Stores
    /\ retrieverGraph \in Graphs
    /\ lastSearch = NoSearch
    /\ ConcIdle
    /\ CacheIdle /\ NoProject /\ StoreIdle /\ EmbIdle /\ IndexIdle /\ QueryIdle /\ QCacheIdle
    /\ RetryIdle
    /\ PersistIdle

SpecConc == InitConc /\ [][NextConc]_vars

\* an empty EmbeddingCache
InitEmbedding ==
    /\ CacheOff
    /\ maxSize \in 1..MaxCap
    /\ EmbIdle
    /\ NoProject /\ SearchIdle /\ StoreIdle /\ ConcIdle /\ IndexIdle /\ QueryIdle /\ QCacheIdle
    /\ RetryIdle
    /\ PersistIdle

SpecEmbedding == InitEmbedding /\ [][NextEmbedding]_vars

\* cmdIndex before it chooses its embedder
InitIndex ==
    /\ CacheOff
    /\ maxSize = MaxCap
    /\ IndexIdle
    /\ SearchIdle
    /\ NoProject /\ StoreIdle /\ ConcIdle /\ EmbIdle /\ QueryIdle /\ QCacheIdle
    /\ RetryIdle
    /\ PersistIdle

SpecIndex == InitIndex /\ [][NextIndex]_vars

\* two projects, each listed in symbols.json by relative or by mixed paths
DiskOf(a, b) ==
    [f \in PhysFiles |->
        IF f = FileA THEN a ELSE IF f = FileB THEN b
        ELSE IF f = FileC THEN Text(ProgB1) ELSE Absent]

QueryDisks == {DiskOf(Text(ProgA1), Text(ProgB1)), DiskOf(Text(ProgA2), Text(ProgB2))}

InitQuery ==
    /\ disk \in QueryDisks
    /\ symbolsJson \in {RelativeKeys, MixedKeys}
    /\ GraphIdle
    /\ QueryIdle
    /\ CacheIdle /\ SearchIdle /\ StoreIdle /\ ConcIdle /\ EmbIdle /\ IndexIdle /\ QCacheIdle
    /\ RetryIdle
    /\ PersistIdle

SpecQuery == InitQuery /\ [][NextQuery]_vars

\* a GraphQueryCache next to a builder
InitQueryCache ==
    /\ disk = DiskOf(Text(ProgA1), Text(ProgB1))
    /\ symbolsJson = RelativeKeys
    /\ GraphIdle
    /\ CacheOff
    /\ maxSize = MaxCap
    /\ QCacheIdle
    /\ SearchIdle /\ StoreIdle /\ ConcIdle /\ EmbIdle /\ IndexIdle /\ QueryIdle
    /\ RetryIdle
    /\ PersistIdle

SpecQueryCache == InitQueryCache /\ [][NextQueryCache]_vars

\* a retriever over the graph of a project in which a.ts imports one binding of b.ts,
\* or three
HybridDisks == {DiskOf(Text(ProgA1), Text(ProgB1)), DiskOf(Text(ProgA4), Text(ProgB1))}

InitHybrid ==
    /\ disk \in HybridDisks
    /\ symbolsJson = RelativeKeys
    /\ GraphIdle
    /\ records = <<>>
    /\ retrieverGraph = CodeGraphOf(buildCompleteGraph(disk, symbolsJson, Cwd))
    /\ lastSearch = NoSearch
    /\ CacheIdle /\ StoreIdle /\ ConcIdle /\ EmbIdle /\ IndexIdle /\ QueryIdle /\ QCacheIdle
    /\ RetryIdle
    /\ PersistIdle

SpecHybrid == InitHybrid /\ [][NextHybrid]_vars

\* a cache constructed with a persistPath, next to the file an earlier process left
InitPersist ==
    /\ cache = <<>>
    /\ maxSize \in 1..MaxCap
    /\ ttl \in ttlMs..(ttlMs + 1)
    /\ now = 0
    /\ audit = "off"
    /\ lastOp = NoOp
    /\ recency = <<>>
    /\ scn = NoScn
    /\ persistFile \in Snapshots
    /\ loading = NotLoading
    /\ NoProject /\ SearchIdle /\ StoreIdle /\ ConcIdle /\ EmbIdle /\ IndexIdle
    /\ QueryIdle /\ QCacheIdle /\ RetryIdle

SpecPersist == InitPersist /\ [][NextPersist]_vars

\* an LmStudioClient straight after its constructor: load() waits for readJson
InitClientCache ==
    /\ cache = <<>>
    /\ maxSize = MaxCap
    /\ ttl = ttlMs + 1
    /\ now = 0
    /\ audit = "off"
    /\ lastOp = NoOp
    /\ recency = <<>>
    /\ scn = NoScn
    /\ persistFile \in EmbeddingSnapshots
    /\ loading = [pc |-> "reading", entries |-> persistFile]
    /\ EmbIdle
    /\ NoProject /\ SearchIdle /\ StoreIdle /\ ConcIdle /\ IndexIdle /\ QueryIdle /\ QCacheIdle
    /\ RetryIdle

SpecClientCache == InitClientCache /\ [][NextClientCache]_vars

\* retry before it is called
InitRetry ==
    /\ RetryIdle
    /\ CacheIdle /\ NoProject /\ SearchIdle /\ StoreIdle /\ ConcIdle /\ EmbIdle /\ IndexIdle
    /\ QueryIdle /\ QCacheIdle
    /\ PersistIdle

SpecRetry == InitRetry /\ [][NextRetry]_vars

-----------------------------------------------------------------------------
(* Claims about SemanticCache *)

\* C8: when a set of a new key evicts an entry, the entry evicted is the one whose most
\* recent successful get or set is the oldest (true LRU), whatever the clock readings,
\* several calls within one clock tick included.
C8_EvictsLeastRecentlyUsed ==
    [][\A k \in MapKeys(cache) \ MapKeys(cache') :
          (MapKeys(cache') \ MapKeys(cache) # {}) => k = recency[1]]_vars

\* C9: from an empty cache of capacity n, after n+1 set calls with pairwise distinct
\* keys and no get of the first key, exactly the first key is gone and the other n are
\* present; before the (n+1)-th set every key set so far is present.
C9_FirstKeyEvictedOnOverflow ==
    scn.ok =>
        IF Len(scn.keys) = maxSize + 1
        THEN /\ ~MapHas(cache, scn.keys[1])
             /\ \A i \in 2..Len(scn.keys) : MapHas(cache, scn.keys[i])
        ELSE \A i \in 1..Len(scn.keys) : MapHas(cache, scn.keys[i])

\* C10: get returns a value only for an entry that exists with now - timestamp <= ttl
\* (and then that entry's value); for an entry with now - timestamp > ttl it returns a
\* miss and removes the entry; an entry leaves the cache only by a get or has on its own
\* key that finds it expired, or as the one entry a set at capacity evicts: no call
\* sweeps other expired entries.
C10_GetHonoursTtl ==
    [][/\ lastOp'.op = "get" =>
            LET k == lastOp'.key IN
            /\ lastOp'.ret # Miss =>
                   /\ MapHas(cache, k)
                   /\ now - MapGet(cache, k).timestamp <= ttlMs
                   /\ lastOp'.ret = MapGet(cache, k).value
            /\ (MapHas(cache, k) /\ now - MapGet(cache, k).timestamp > ttlMs) =>
                   (lastOp'.ret = Miss /\ ~MapHas(cache', k))
       /\ \A k \in MapKeys(cache) \ MapKeys(cache') :
            \/ /\ lastOp'.op \in {"get", "has"}
               /\ lastOp'.key = k
               /\ now - MapGet(cache, k).timestamp > ttlMs
            \/ /\ lastOp'.op = "set"
               /\ lastOp'.key \notin MapKeys(cache)
               /\ Len(cache) >= maxSize
               /\ Cardinality(MapKeys(cache) \ MapKeys(cache')) = 1]_vars

\* a get has just found an expired entry, answered with a miss and removed it, while
\* another expired entry stays in the cache
C10_Witness ==
    /\ lastOp.op = "get" /\ lastOp.found = "expired" /\ lastOp.ret = Miss
    /\ ~MapHas(cache, lastOp.key)
    /\ \E i \in 1..Len(cache) : now - cache[i].timestamp > ttlMs

-----------------------------------------------------------------------------
(* Claims about GraphBuilder *)

NodeIds(g) == {g.nodes[i].id : i \in 1..Len(g.nodes)}

NodeOf(g, id) == g.nodes[CHOOSE i \in 1..Len(g.nodes) : g.nodes[i].id = id]

EdgesOfType(g, type) == {i \in 1..Len(g.edges) : g.edges[i].type = type}

Count(s, x) == Cardinality({i \in 1..Len(s) : s[i] = x})

\* C1: the graph a completed buildCompleteGraph returned has no two nodes with the same
\* id, and the source and the target of every edge are ids of nodes of that graph.
C1_NoDuplicateNoDangling ==
    \A b \in 1..Len(built) :
        LET g == built[b].graph IN
        /\ \A i, j \in 1..Len(g.nodes) : g.nodes[i].id = g.nodes[j].id => i = j
        /\ \A i \in 1..Len(g.edges) :
               g.edges[i].source \in NodeIds(g) /\ g.edges[i].target \in NodeIds(g)

\* a build that skipped a file, met a symbol declared twice, and produced contains,
\* imports and calls edges
C1_Witness ==
    /\ pc = "idle" /\ built # <<>>
    /\ Len(fileParseResults) < Len(files)
    /\ \E i, j \in 1..Len(graph.edges) :
           i # j /\ graph.edges[i] = graph.edges[j] /\ graph.edges[i].type = "contains"
    /\ EdgesOfType(graph, "imports") # {}
    /\ EdgesOfType(graph, "calls") # {}

\* C2: two consecutive builds on the same builder from the same files and the same
\* symbols.json return the same set of nodes and the same edges with the same
\* multiplicities.
C2_RebuildIsIdempotent ==
    \A b \in 1..(Len(built) - 1) :
        built[b].input = built[b + 1].input =>
            LET g1 == built[b].graph
                g2 == built[b + 1].graph
            IN  /\ Range(g1.nodes) = Range(g2.nodes)
                /\ Len(g1.nodes) = Len(g2.nodes)
                /\ \A e \in Range(g1.edges) \cup Range(g2.edges) :
                       Count(g1.edges, e) = Count(g2.edges, e)

\* a second build from unchanged input, of a graph with nodes and all kinds of edges
C2_Witness ==
    /\ Len(built) >= 2
    /\ built[1].input = built[2].input
    /\ EdgesOfType(built[2].graph, "contains") # {}
    /\ EdgesOfType(built[2].graph, "imports") # {}
    /\ EdgesOfType(built[2].graph, "calls") # {}

\* C3: the target of every calls edge of a built graph is a function node of the file
\* the call was made in (the file of the edge's source); and when a.ts is
\* `import { helper } from './b'; export function main() { helper(); }` no calls edge
\* leaves main.
C3_CallsStayInFile ==
    \A b \in 1..Len(built) :
        LET g == built[b].graph IN
        /\ \A i \in EdgesOfType(g, "calls") :
               /\ g.edges[i].target \in NodeIds(g)
               /\ g.edges[i].source \in NodeIds(g)
               /\ NodeOf(g, g.edges[i].target).type = "function"
               /\ NodeOf(g, g.edges[i].target).path = NodeOf(g, g.edges[i].source).path
        /\ built[b].input.disk[FileA] = Text(ProgA1) =>
               \A i \in EdgesOfType(g, "calls") :
                   NodeOf(g, g.edges[i].source).label # "main"

\* a graph in which two files declare a function helper, and main's call of helper has
\* an edge
C3_Witness ==
    \E b \in 1..Len(built) :
        LET g == built[b].graph IN
        /\ \E i, j \in 1..Len(g.nodes) :
               /\ g.nodes[i].label = "helper" /\ g.nodes[j].label = "helper"
               /\ g.nodes[i].type = "function" /\ g.nodes[j].type = "function"
               /\ g.nodes[i].path # g.nodes[j].path
        /\ \E i \in EdgesOfType(g, "calls") :
               /\ NodeOf(g, g.edges[i].source).label = "main"
               /\ NodeOf(g, g.edges[i].target).label = "helper"

\* the files the suffix list makes of an import, in probing order
Candidates(fromFile, importPath) ==
    LET resolved == resolveFrom(dirname(resolve(fromFile)), importPath)
    IN  [i \in 1..Len(extensions) |-> AddExt(resolved, extensions[i])]

\* the parsed files that are the file at the absolute path p
ParsedAt(p) == {i \in 1..Len(fileParseResults) : resolve(fileParseResults[i].filePath) = p}

\* C4: for every relative import of a parsed file, if one of the six candidates
\* (import path resolved against the importing file's directory, plus .ts, .tsx, .js,
\* .jsx, /index.ts, /index.tsx) is a known file, the graph has an imports edge from the
\* importing file's node to the node of the first such candidate.
C4_ImportEdgeToFirstCandidate ==
    (pc = "idle" /\ built # <<>>) =>
        \A f \in 1..Len(fileParseResults) :
            LET fromFile == fileParseResults[f].filePath
                imports == fileParseResults[f].result.imports
            IN  \A m \in 1..Len(imports) :
                    StartsWithDot(imports[m].modulePath) =>
                        LET cands == Candidates(fromFile, imports[m].modulePath)
                            known == {c \in 1..Len(cands) : ParsedAt(cands[c]) # {}}
                        IN  known # {} =>
                                LET first == CHOOSE c \in known : \A d \in known : c <= d
                                IN  \E t \in ParsedAt(cands[first]) :
                                        Edge(FileId(fromFile),
                                             FileId(fileParseResults[t].filePath),
                                             "imports") \in Range(graph.edges)

-----------------------------------------------------------------------------
(* Claims about HybridRetriever *)

\* the path a candidate names in its first line, "" if it names none
NamedPath(doc) == IF doc.content.header = "File:" THEN doc.content.path ELSE ""

ImportsInto(g, path) ==
    {i \in 1..Len(g.edges) : g.edges[i].type = "imports" /\ g.edges[i].target = "file:" \o path}

ImportsOutOf(g, path) ==
    {i \in 1..Len(g.edges) : g.edges[i].type = "imports" /\ g.edges[i].source = "file:" \o path}

\* an imports edge joins the two files, in one direction or the other
Joined(g, p1, p2) ==
    \E i \in 1..Len(g.edges) :
        /\ g.edges[i].type = "imports"
        /\ \/ g.edges[i].source = "file:" \o p1 /\ g.edges[i].target = "file:" \o p2
           \/ g.edges[i].source = "file:" \o p2 /\ g.edges[i].target = "file:" \o p1

\* the other candidates whose file is joined to the file of the i-th candidate
RelatedAnyFile(g, docs, i) ==
    {j \in 1..Len(docs) :
        j # i /\ NamedPath(docs[j]) # "" /\ Joined(g, NamedPath(docs[i]), NamedPath(docs[j]))}

\* those of them that belong to another file
RelatedOtherFile(g, docs, i) ==
    {j \in RelatedAnyFile(g, docs, i) : NamedPath(docs[j]) # NamedPath(docs[i])}

\* tenths of 1 + 0.3 [importedBy > 2] + 0.2 [imports > 3] + 0.4 * related
Multiplier10(g, path, related) ==
    10 + (IF Cardinality(ImportsInto(g, path)) > 2 THEN 3 ELSE 0)
       + (IF Cardinality(ImportsOutOf(g, path)) > 3 THEN 2 ELSE 0)
       + 4 * related

\* score = (1 / rank1) * (mult10 / 10), rank1 being the 1-based vector rank
ScoreIs(score, rank1, mult10) == score.num * 10 * rank1 = mult10 * score.den

Graphless == retrieverGraph.null \/ Len(retrieverGraph.nodes) = 0

\* C5: with a graph that is null or has no nodes, search(query, k) returns what a direct
\* k-best vector query for the same query returns, the same documents in the same
\* order, which are the first k of the candidates it fetched.
C5_FallbackIsVectorSearch ==
    (lastSearch.done /\ Graphless) =>
        /\ lastSearch.results = ragSearch(records, lastSearch.query, lastSearch.k)
        /\ lastSearch.results = Take(lastSearch.initial, lastSearch.k)

\* a search on a graph without nodes that had to rank and to cut the candidates
C5_Witness ==
    /\ lastSearch.done
    /\ ~retrieverGraph.null /\ Len(retrieverGraph.nodes) = 0
    /\ lastSearch.k >= 1
    /\ Len(lastSearch.initial) > lastSearch.k
    /\ lastSearch.results[1].id # records[1].id

\* C6 as the specification words it: relatedCount counts every other candidate whose
\* file is joined to the candidate's file by an imports edge.
C6_ScoreCountsAnyFile ==
    (lastSearch.done /\ ~Graphless) =>
        /\ Len(lastSearch.scored) = Len(lastSearch.initial)
        /\ \A i \in 1..Len(lastSearch.initial) :
               LET doc == lastSearch.initial[i] IN
               /\ lastSearch.scored[i].id = doc.id
               /\ ScoreIs(lastSearch.scored[i].score, i,
                          IF NamedPath(doc) = "" THEN 10
                          ELSE Multiplier10(retrieverGraph, NamedPath(doc),
                                   Cardinality(RelatedAnyFile(retrieverGraph,
                                                              lastSearch.initial, i))))

\* C6: with a graph that has a node, every candidate fetched is scored, and its score is
\* (1/(rank+1)) * (1 + 0.3 if importedBy > 2 + 0.2 if imports > 3 + 0.4 * relatedCount),
\* relatedCount being the number of other candidates of a different file that an imports
\* edge joins to the candidate's file; a candidate that names no file keeps 1/(rank+1).
C6_ScoreCountsOtherFiles ==
    (lastSearch.done /\ ~Graphless) =>
        /\ Len(lastSearch.scored) = Len(lastSearch.initial)
        /\ \A i \in 1..Len(lastSearch.initial) :
               LET doc == lastSearch.initial[i] IN
               /\ lastSearch.scored[i].id = doc.id
               /\ ScoreIs(lastSearch.scored[i].score, i,
                          IF NamedPath(doc) = "" THEN 10
                          ELSE Multiplier10(retrieverGraph, NamedPath(doc),
                                   Cardinality(RelatedOtherFile(retrieverGraph,
                                                                lastSearch.initial, i))))

\* a search whose candidates hold a central dependency, an integration point, and two
\* documents of one file that imports itself
C6_Witness ==
    /\ lastSearch.done /\ ~Graphless
    /\ \E i, j, l \in 1..Len(lastSearch.initial) :
           LET docs == lastSearch.initial IN
           /\ Cardinality(ImportsInto(retrieverGraph, NamedPath(docs[i]))) > 2
           /\ Cardinality(ImportsOutOf(retrieverGraph, NamedPath(docs[j]))) > 3
           /\ l # j /\ NamedPath(docs[l]) = NamedPath(docs[j])
           /\ Joined(retrieverGraph, NamedPath(docs[j]), NamedPath(docs[j]))

CycleCounters ==
    \A p \in {PathA, PathB, PathC} :
        /\ Cardinality(ImportsInto(retrieverGraph, p)) = 1
        /\ Cardinality(ImportsOutOf(retrieverGraph, p)) = 1
        /\ Connections(retrieverGraph, "file:" \o p).importedBy = 1
        /\ Connections(retrieverGraph, "file:" \o p).imports = 1

\* C7 as the specification words it: on the import cycle every score is 1/(rank+1) and
\* the candidates come back in vector-rank order.
C7_CyclePureRank ==
    retrieverGraph = Cycle3 =>
        /\ CycleCounters
        /\ lastSearch.done =>
               /\ \A i \in 1..Len(lastSearch.scored) :
                      ScoreIs(lastSearch.scored[i].score, i, 10)
               /\ Len(lastSearch.results) = Min2(lastSearch.k, Len(lastSearch.initial))
               /\ \A i \in 1..Len(lastSearch.results) :
                      lastSearch.results[i].id = lastSearch.initial[i].id

\* C7: on the import cycle A -> B -> C -> A every file has importedBy = 1 and
\* imports = 1, no candidate gets the 0.3 or the 0.2 boost, the score of a candidate is
\* (1/(rank+1)) * (1 + 0.4 * relatedCount), and search returns the k best by that score.
C7_CycleRelatedBoostOnly ==
    retrieverGraph = Cycle3 =>
        /\ CycleCounters
        /\ lastSearch.done =>
               /\ \A i \in 1..Len(lastSearch.scored) :
                      ScoreIs(lastSearch.scored[i].score, i,
                              10 + 4 * Cardinality(RelatedOtherFile(retrieverGraph,
                                                       lastSearch.initial, i)))
               /\ Len(lastSearch.results) = Min2(lastSearch.k, Len(lastSearch.initial))
               /\ \A i \in 1..Len(lastSearch.results) :
                      /\ lastSearch.results[i] \in Range(lastSearch.scored)
                      /\ \A s \in Range(lastSearch.scored) :
                             ScoreGreater(s.score, lastSearch.results[i].score) =>
                                 \E j \in 1..(i - 1) : lastSearch.results[j] = s

\* a search on the cycle among whose candidates two files of the cycle meet
C7_Witness ==
    /\ retrieverGraph = Cycle3
    /\ lastSearch.done
    /\ lastSearch.k >= 1
    /\ \E i \in 1..Len(lastSearch.initial) :
           RelatedOtherFile(retrieverGraph, lastSearch.initial, i) # {}

-----------------------------------------------------------------------------
(* Claims about EmbeddingCache *)

\* C11: whatever the interleaving of getOrCompute calls on one EmbeddingCache, computeFn
\* is invoked at most once for each distinct text, and every call that returns, returns
\* the vector the first computation for its text produced.
C11_ComputedOncePerText ==
    /\ \A text \in Texts : computeCount[text] <= 1
    /\ returned.from # "none" => returned.vector = Computed(returned.text, 1)

-----------------------------------------------------------------------------
(* Claims about GraphQueryCache *)

\* C12: whenever buildCompleteGraph has completed, the graph-query cache holds no entry
\* that was stored before that build: every entry still present was stored after the
\* most recent rebuild.
C12_RebuildInvalidatesQueryCache ==
    (pc = "idle" /\ Len(built) >= 1) =>
        \A i \in 1..Len(cache) : storedAt[cache[i].key] = Len(built)

-----------------------------------------------------------------------------
(* Claims about the embedders and cmdIndex *)

\* C13: the fallback vector is a function of the text alone: any two embeddings of
\* the same text made by a fallback embedder, in one run of the command or in two, are
\* the same vector.
C13_FallbackIsFunctionOfText ==
    \A e1 \in embedLog : \A e2 \in embedLog :
        (e1.fallback /\ e2.fallback /\ e1.text = e2.text) => e1.vector = e2.vector

\* C14: whatever fails at the embedding provider, cmdIndex completes, and every vector
\* it indexes is the hash vector of the document's text, never one drawn at random.
C14_IndexedVectorsAreHashVectors ==
    indexPc = "done" =>
        \A i \in 1..Len(records) :
            records[i].vector = hashToVector(records[i].text, HashDim)

-----------------------------------------------------------------------------
(* Claims about InMemoryVectorStore *)

C15_Ids(recs) == {recs[i].id : i \in 1..Len(recs)}

\* the last record of the batch that carries the id
C15_LastOf(batch, id) ==
    batch[CHOOSE i \in 1..Len(batch) :
              /\ batch[i].id = id
              /\ \A j \in (i + 1)..Len(batch) : batch[j].id # id]

C15_FirstAt(batch, id) ==
    CHOOSE i \in 1..Len(batch) : batch[i].id = id /\ \A j \in 1..(i - 1) : batch[j].id # id

\* C15: the store holds at most one record per id; after upsertMany(batch) the record of
\* every id of the batch is the last one the batch carries for it, the records that were
\* stored keep their positions (a replaced one included) and are unchanged when the batch
\* does not name them, and the new ids follow at the end in the order the batch first
\* names them.
C15_UpsertManyKeepsOnePerId ==
    /\ \A i \in 1..Len(records) : \A j \in 1..Len(records) :
           records[i].id = records[j].id => i = j
    /\ storeOp.op = "upsertMany" =>
           LET before == storeOp.before
               batch == storeOp.batch
               n == Len(before)
           IN  /\ Len(records) >= n
               /\ C15_Ids(records) = C15_Ids(before) \cup C15_Ids(batch)
               /\ \A i \in 1..Len(records) :
                      IF records[i].id \in C15_Ids(batch)
                      THEN records[i] = C15_LastOf(batch, records[i].id)
                      ELSE records[i] = before[i]
               /\ \A i \in 1..n : records[i].id = before[i].id
               /\ \A i \in (n + 1)..Len(records) : \A j \in (i + 1)..Len(records) :
                      C15_FirstAt(batch, records[i].id) < C15_FirstAt(batch, records[j].id)

\* a batch that names a stored id twice has replaced the first of two stored records by
\* its second record
C15_Witness ==
    /\ storeOp.op = "upsertMany"
    /\ Len(storeOp.before) = 2
    /\ Len(storeOp.batch) = 2
    /\ storeOp.batch[1].id = storeOp.before[1].id
    /\ storeOp.batch[2].id = storeOp.before[1].id
    /\ storeOp.batch[1] # storeOp.batch[2]
    /\ storeOp.batch[2] # storeOp.before[1]
    /\ Len(records) = 2
    /\ records[1] = storeOp.batch[2]

\* the similarity dot / (norm + 1e-9) of a record to the query vector, compared exactly
C16_Sim(rec) == cosineSim(storeOp.vector, rec.vector)

C16_Cmp(x, y) ==
    LET d == x.dot * y.norm - y.dot * x.norm
    IN  IF d # 0 THEN d ELSE x.dot - y.dot

C16_Pos(rec) == CHOOSE i \in 1..Len(storeOp.before) : storeOp.before[i] = rec

\* C16: query(vector, k) on n records returns min(k, n) of the stored records, in
\* non-increasing order of similarity, those of equal similarity in storage order; no
\* omitted record is more similar than a returned one; the store is as it was.
C16_QueryReturnsTopK ==
    storeOp.op = "query" =>
        LET before == storeOp.before
            result == storeOp.result
            chosen == {result[i] : i \in 1..Len(result)}
        IN  /\ Len(result) = Min2(storeOp.k, Len(before))
            /\ Cardinality(chosen) = Len(result)
            /\ chosen \subseteq {before[i] : i \in 1..Len(before)}
            /\ \A i \in 1..Len(result) : \A j \in (i + 1)..Len(result) :
                   /\ C16_Cmp(C16_Sim(result[i]), C16_Sim(result[j])) >= 0
                   /\ C16_Cmp(C16_Sim(result[i]), C16_Sim(result[j])) = 0
                          => C16_Pos(result[i]) < C16_Pos(result[j])
            /\ \A i \in 1..Len(before) :
                   before[i] \notin chosen =>
                       \A r \in chosen : C16_Cmp(C16_Sim(before[i]), C16_Sim(r)) <= 0
            /\ records = before

\* a query over three records, two of equal similarity and one more similar stored
\* after them, chosen two of them
C16_Witness ==
    /\ storeOp.op = "query"
    /\ Len(storeOp.before) = 3
    /\ storeOp.k = 2
    /\ Len(storeOp.result) = 2
    /\ C16_Cmp(C16_Sim(storeOp.before[1]), C16_Sim(storeOp.before[2])) = 0
    /\ C16_Cmp(C16_Sim(storeOp.before[3]), C16_Sim(storeOp.before[1])) > 0
    /\ storeOp.result = <<storeOp.before[3], storeOp.before[1]>>

-----------------------------------------------------------------------------
(* Claims about GraphBuilder's error handling, queries and snapshot *)

\* a path of symbols.json that parseAndIndexFile gives up on: empty, or naming nothing,
\* a directory, a blank file or a file whose extraction throws
C17_IsBad(d, filePath) ==
    \/ PathStr(filePath) = ""
    \/ ~IsFile(d, resolve(filePath))
    \/ d[resolve(filePath)].kind \in {"blank", "unparsable"}

C17_BadKinds(d, keys) ==
    {IF PathStr(keys[i]) = "" THEN "empty path"
     ELSE IF IsDirectory(d, resolve(keys[i])) /\ ~IsFile(d, resolve(keys[i])) THEN "directory"
     ELSE IF ~IsFile(d, resolve(keys[i])) THEN "absent"
     ELSE d[resolve(keys[i])].kind : i \in 1..Len(keys)}

C17_Mentions(g, filePath) ==
    \/ \E i \in 1..Len(g.nodes) : g.nodes[i].path = PathStr(filePath)
    \/ \E i \in 1..Len(g.edges) :
           \/ g.edges[i].source = FileId(filePath)
           \/ g.edges[i].target = FileId(filePath)

\* the list without every occurrence of the path
C17_Except(keys, filePath) == SelectSeq(keys, LAMBDA key : key # filePath)

C18_Snapshot == built[Len(built)].graph

\* C18: a loadGraph on a second builder returns the explicit not-found value and leaves
\* that builder alone when no snapshot was written; otherwise it returns the nodes and
\* edges of the most recent snapshot write, and afterwards the four queries answer every
\* id on the second builder as they do on the builder that produced the snapshot.
C18_LoadGraphRestoresSnapshot ==
    [][loader' # loader =>
          IF Len(built) = 0
          THEN /\ loader'.result = NotFound
               /\ loader'.nodes = loader.nodes
               /\ loader'.edges = loader.edges
          ELSE /\ loader'.result.found
               /\ loader'.result.nodes = C18_Snapshot.nodes
               /\ loader'.result.edges = C18_Snapshot.edges
               /\ \A queryType \in QueryTypes :
                      \A id \in QueryIds(C18_Snapshot.nodes, C18_Snapshot.edges)
                                    \cup QueryIds(loader'.nodes, loader'.edges) :
                          /\ RunQuery(queryType, loader'.nodes, loader'.edges, id)
                                 = RunQuery(queryType, C18_Snapshot.nodes,
                                            C18_Snapshot.edges, id)
                          /\ pc = "idle" =>
                                 RunQuery(queryType, loader'.nodes, loader'.edges, id)
                                     = RunQuery(queryType, nodes, edges, id)]_vars

\* after a second build that gave another graph, the second builder loaded the new
\* snapshot and answered a query with a node
C18_Witness ==
    /\ Len(built) = 2
    /\ built[1].graph # built[2].graph
    /\ loader.called
    /\ loader.result.found
    /\ loader.result.nodes = built[2].graph.nodes
    /\ \E i \in 1..Len(loader.nodes) : loader.nodes[i].type = "file"
    /\ \E i \in 1..Len(loader.nodes) : loader.nodes[i].type = "function"
    /\ lastQuery.on = "loader"
    /\ Len(lastQuery.result) >= 1

C19_TypeOf(queryType) ==
    IF queryType \in {"getCallersOf", "getCalleesOf"} THEN "calls" ELSE "imports"

\* the end of the edge that the id is compared with
C19_EndOf(queryType) ==
    IF queryType \in {"getCallersOf", "getImportersOf"} THEN "target" ELSE "source"

C19_FarEnd(queryType) ==
    IF queryType \in {"getCallersOf", "getImportersOf"} THEN "source" ELSE "target"

C19_NodeIds(nodeMap) == {nodeMap[i].id : i \in 1..Len(nodeMap)}

\* the edges of the query's type whose near end is the id and whose far end is a node
C19_Matching(nodeMap, edgeList, queryType, id) ==
    SelectSeq(edgeList, LAMBDA edge :
        /\ edge.type = C19_TypeOf(queryType)
        /\ edge[C19_EndOf(queryType)] = id
        /\ edge[C19_FarEnd(queryType)] \in C19_NodeIds(nodeMap))

C19_NodeOf(nodeMap, id) == nodeMap[CHOOSE i \in 1..Len(nodeMap) : nodeMap[i].id = id]

\* C19: each of the four queries returns, edge by edge, the node at the other end of
\* every edge of its type (calls or imports) whose target, respectively source, is the
\* id, an empty list when there is no such edge or the id is unknown, and leaves the
\* nodes and edges of both builders as they were.
C19_QueriesReturnFarEnds ==
    [][(lastQuery' # lastQuery /\ lastQuery'.on # "none") =>
          LET q == lastQuery'
              nodeMap == IF q.on = "builder" THEN nodes ELSE loader.nodes
              edgeList == IF q.on = "builder" THEN edges ELSE loader.edges
              matching == C19_Matching(nodeMap, edgeList, q.queryType, q.id)
          IN  /\ q.result = [i \in 1..Len(matching) |->
                                C19_NodeOf(nodeMap, matching[i][C19_FarEnd(q.queryType)])]
              /\ q.id \notin C19_NodeIds(nodeMap) => q.result = <<>>
              /\ nodes' = nodes
              /\ edges' = edges
              /\ graph' = graph
              /\ loader' = loader]_vars

\* getImportsOf of a file that also contains symbols returned the imported file; and the
\* id is the source of edges of another type
C19_Witness ==
    /\ lastQuery.on = "builder"
    /\ lastQuery.queryType = "getImportsOf"
    /\ Len(lastQuery.result) >= 1
    /\ \E i \in 1..Len(edges) : edges[i].type = "contains" /\ edges[i].source = lastQuery.id
    /\ \E i \in 1..Len(edges) : edges[i].type = "calls"

-----------------------------------------------------------------------------
(* Claims about overlapping HybridRetriever calls *)

\* C20: no step of search or getGraphStats changes the graph the retriever was given,
\* getGraphStats reports that graph, and every search call that returns, whatever other
\* calls were suspended at the vector query meanwhile, returns what the call returns
\* when it runs alone.
C20_OverlappingSearchesAsAlone ==
    /\ [][retrieverGraph' = retrieverGraph]_vars
    /\ [](stats # NotAsked => stats = getGraphStats(retrieverGraph))
    /\ [](finished.done =>
             finished.results =
                 searchResult(records, retrieverGraph, finished.query, finished.k).results)

\* a call returned graph-ranked results while another call, of another k, had fetched
\* its candidates and was still suspended, and getGraphStats had been called
C20_Witness ==
    /\ finished.done
    /\ Len(finished.results) >= 1
    /\ ~UseFallback(retrieverGraph)
    /\ finished.results # Take(ragSearch(records, finished.query, finished.k * 3), finished.k)
    /\ Len(pending) = 1
    /\ pending[1].queried
    /\ pending[1].k # finished.k
    /\ stats # NotAsked

-----------------------------------------------------------------------------
(* C21: one CallSite per call expression, attributed to the innermost enclosing
   function *)

\* the name a function-like node gives to the calls inside it: a named function, or the
\* variable of a statement that declares exactly one function-valued variable
C21_Encloser(node, enclosing) ==
    CASE node.kind = "FunctionDeclaration" /\ node.name # "" -> node.name
      [] node.kind = "VariableStatement"
         /\ Cardinality({i \in 1..Len(node.decls) : node.decls[i].arrow}) = 1 ->
             node.decls[CHOOSE i \in 1..Len(node.decls) : node.decls[i].arrow].name
      [] OTHER -> enclosing

RECURSIVE C21_CallSites(_, _, _, _)
RECURSIVE C21_CallSitesOfAll(_, _, _, _)

\* the call expressions under node, each once, in source order, with the name of the
\* innermost enclosing function; className is the class a method is a member of
C21_CallSites(node, filePath, className, enclosing) ==
    LET inner == IF node.kind = "MethodDeclaration" /\ node.name # "" /\ className # ""
                 THEN className \o "." \o node.name
                 ELSE C21_Encloser(node, enclosing)
        own == IF node.kind = "CallExpression" /\ calleeNameOf(node) # <<>>
               THEN <<[callerFunction |-> inner, calleeName |-> calleeNameOf(node),
                       filePath |-> filePath]>>
               ELSE <<>>
    IN  own \o C21_CallSitesOfAll(node.kids, filePath,
                                  IF node.kind = "ClassDeclaration" THEN node.name ELSE "",
                                  inner)

C21_CallSitesOfAll(kids, filePath, className, enclosing) ==
    IF Len(kids) = 0 THEN <<>>
    ELSE C21_CallSites(Head(kids), filePath, className, enclosing)
         \o C21_CallSitesOfAll(Tail(kids), filePath, className, enclosing)

\* C21: while a build is parsing, the calls recorded for every parsed file are exactly
\* one CallSite per call expression of the file, in source order, whose callerFunction
\* is the innermost enclosing function, Class.method or function-valued variable, and
\* null for a call outside any function.
C21_OneCallSitePerCall ==
    pc = "parse" =>
        \A f \in 1..Len(fileParseResults) :
            LET filePath == fileParseResults[f].filePath
            IN  fileParseResults[f].result.calls =
                    C21_CallSites(disk[resolve(filePath)].ast, filePath, "", Null)

-----------------------------------------------------------------------------
(* C22: what search returns for a graph with nodes *)

\* x.num / x.den = y.num / y.den
C22_SameScore(x, y) == x.num * y.den = y.num * x.den

\* the candidate at position p goes in front of the candidate at position r: a greater
\* final score, or an equal one and an earlier vector rank
C22_Before(scored, p, r) ==
    \/ scored[p].score.num * scored[r].score.den > scored[r].score.num * scored[p].score.den
    \/ C22_SameScore(scored[p].score, scored[r].score) /\ p < r

\* C22: after search(query, k) with a graph of at least one node, the candidates are
\* the 3k documents the vector index ranks first, at most k documents are returned,
\* every returned document is one of the candidates and none is returned twice, the
\* returned documents are in non-increasing order of final score with equal scores in
\* vector-rank order, every candidate left out ranks behind every one returned, and no
\* candidates give an empty result.
C22_SearchReturnsTopOfCandidates ==
    (lastSearch.done /\ ~UseFallback(retrieverGraph)) =>
        LET initial == lastSearch.initial
            scored == scoreWithGraphBoost(retrieverGraph, initial)
            results == lastSearch.results
            k == lastSearch.k
        IN  /\ initial = ragSearch(records, lastSearch.query, 3 * k)
            /\ Len(initial) <= 3 * k
            /\ Len(results) = Min2(k, Len(initial))
            /\ Len(initial) = 0 => results = <<>>
            /\ \E pos \in [1..Len(results) -> 1..Len(initial)] :
                   /\ \A i, j \in 1..Len(results) : i # j => pos[i] # pos[j]
                   /\ \A i \in 1..Len(results) :
                          /\ results[i].id = initial[pos[i]].id
                          /\ results[i].content = initial[pos[i]].content
                          /\ results[i].score = scored[pos[i]].score
                   /\ \A i, j \in 1..Len(results) :
                          i < j => C22_Before(scored, pos[i], pos[j])
                   /\ \A i \in 1..Len(results) :
                          \A r \in 1..Len(initial) :
                              (\A j \in 1..Len(results) : pos[j] # r) =>
                                  C22_Before(scored, pos[i], r)

\* a search whose boost moved a later candidate in front of an earlier one, or left
\* two candidates of equal final score of which the earlier one was returned
C22_Witness ==
    /\ lastSearch.done
    /\ ~UseFallback(retrieverGraph)
    /\ Len(lastSearch.initial) = 3
    /\ Len(lastSearch.results) = 2
    /\ LET scored == scoreWithGraphBoost(retrieverGraph, lastSearch.initial)
       IN  /\ C22_SameScore(scored[2].score, scored[3].score)
           /\ lastSearch.results[2].id = lastSearch.initial[2].id

-----------------------------------------------------------------------------
(* C23: retry *)

\* the positions of the events of one kind in the trace
C23_At(ev) == {i \in 1..Len(trace) : trace[i].ev = ev}

\* the attempt numbers onRetry was called with, in calling order
C23_OnRetryAttempts ==
    LET calls == SelectSeq(trace, LAMBDA e : e.ev = "onRetry")
    IN  [i \in 1..Len(calls) |-> calls[i].attempt]

\* C23: fn is called one attempt after another (every call ends before the next one is
\* made, and the calls are numbered 1, 2, ...), at most maxAttempts times; no call
\* follows a successful one and retry resolves with its value; when maxAttempts (>= 1)
\* attempts failed retry rejects with the error of the last one; and onRetry is called
\* exactly once straight after each failed attempt but the last, with the attempt
\* numbers 1, ..., maxAttempts - 1 in that order.
C23_RetryContract ==
    LET max == options.maxAttempts
        calls == C23_At("call")
        throws == C23_At("throw")
        returns == C23_At("return")
    IN  /\ Cardinality(calls) <= max
        /\ \A i \in calls :
               /\ trace[i].attempt = Cardinality({j \in calls : j <= i})
               /\ i < Len(trace) =>
                      /\ trace[i + 1].ev \in {"return", "throw"}
                      /\ trace[i + 1].attempt = trace[i].attempt
        /\ \A i \in throws \cup returns : i > 1 /\ trace[i - 1].ev = "call"
        /\ \A i \in returns :
               /\ i = Len(trace)
               /\ retryPc = "resolved"
               /\ retryOut = [kind |-> "resolved", value |-> trace[i].value]
        /\ retryPc = "resolved" => returns # {}
        /\ (retryPc = "rejected" /\ max >= 1) =>
               /\ Cardinality(throws) = max
               /\ returns = {}
               /\ trace[Len(trace)].ev = "throw"
               /\ retryOut = [kind |-> "rejected", value |-> trace[Len(trace)].value]
        /\ options.onRetry =>
               /\ \A i \in throws :
                      trace[i].attempt < max =>
                          /\ i < Len(trace)
                          /\ trace[i + 1] = Event("onRetry", trace[i].attempt, trace[i].value)
               /\ \A i \in C23_At("onRetry") :
                      /\ i > 1 /\ trace[i - 1].ev = "throw"
                      /\ trace[i].attempt < max
               /\ \A i \in 1..Len(C23_OnRetryAttempts) : C23_OnRetryAttempts[i] = i
               /\ retryPc = "rejected" => Len(C23_OnRetryAttempts) = Max0(max - 1)

\* retry with maxAttempts = 3 and an onRetry callback rejected after three failures
C23_Witness ==
    /\ retryPc = "rejected"
    /\ options = [maxAttempts |-> 3, onRetry |-> TRUE]
    /\ C23_OnRetryAttempts = <<1, 2>>
    /\ Cardinality(C23_At("throw")) = 3

-----------------------------------------------------------------------------
(* C24: the types and ids of the nodes of a built graph *)

C24_NodeTypes == {"file", "function", "class", "interface", "type"}

\* C24: every node of every graph buildCompleteGraph returned has one of the five node
\* types; a file node has the id file:<filePath>, and a symbol node the id
\* <type>:<filePath>:<name>.
C24_NodeTypesAndIds ==
    \A b \in 1..Len(built) :
        LET g == built[b].graph IN
        \A i \in 1..Len(g.nodes) :
            LET node == g.nodes[i] IN
            /\ node.type \in C24_NodeTypes
            /\ node.type = "file" => node.id = "file:" \o node.path
            /\ node.type # "file" =>
                   node.id = node.type \o ":" \o node.path \o ":" \o node.label

-----------------------------------------------------------------------------
(* C25: one dimension per vector index *)

\* C25: the records of the store all have vectors of one length, and the last query
\* compared its vector with records of that same length only.
C25_OneDimensionPerIndex ==
    /\ \A i, j \in 1..Len(records) : Len(records[i].vector) = Len(records[j].vector)
    /\ storeOp.op = "query" =>
           \A i \in 1..Len(storeOp.before) :
               Len(storeOp.before[i].vector) = Len(storeOp.vector)

-----------------------------------------------------------------------------
(* C26: the central-dependency boost counts importing files *)

\* the other files that import the file of the node fileId
C26_Importers(g, fileId) ==
    {g.edges[i].source : i \in {j \in 1..Len(g.edges) :
        /\ g.edges[j].type = "imports"
        /\ g.edges[j].target = fileId
        /\ g.edges[j].source # fileId}}

\* the multiplier, in tenths, of a candidate whose central-dependency boost depends on
\* the number of importing files
C26_Multiplier(g, documents, fileId) ==
    10 + (IF Cardinality(C26_Importers(g, fileId)) > 2 THEN 3 ELSE 0)
       + (IF IsIntegrationPoint(Connections(g, fileId)) THEN 2 ELSE 0)
       + 4 * countRelatedDocuments(g, fileId, documents)

\* C26: in a search over the graph buildCompleteGraph built, a candidate of a file of
\* the graph is scored with the +0.3 of a central dependency exactly when more than two
\* other files import its file; the bindings one importer imports count once.
C26_CentralBoostCountsImporters ==
    lastSearch.done =>
        \A i \in 1..Len(lastSearch.scored) :
            LET filePath == extractFilePath(lastSearch.initial[i].content)
                fileId == "file:" \o filePath
            IN  (filePath # Null /\ IsFileNode(retrieverGraph, fileId)) =>
                    lastSearch.scored[i].score =
                        [num |-> C26_Multiplier(retrieverGraph, lastSearch.initial, fileId),
                         den |-> 10 * i]

-----------------------------------------------------------------------------
(* C27: what load takes from the snapshot *)

\* the step in which load goes through the entries it read
C27_LoadStep == loading.pc = "reading" /\ loading'.pc = "done"

\* the entries of the snapshot that are younger than ttl when load looks at them
C27_Fresh(entries, t) == {i \in 1..Len(entries) : t - entries[i].timestamp < ttl}

\* load left under every key of a fresh snapshot entry the last such entry, and left
\* every other key as it was
C27_TakesFreshOnly ==
    LET entries == loading.entries
        fresh == C27_Fresh(entries, now)
        freshKeys == {entries[i].key : i \in fresh}
    IN  /\ \A key \in freshKeys :
               LET last == CHOOSE i \in fresh :
                               /\ entries[i].key = key
                               /\ \A j \in fresh : entries[j].key = key => j <= i
               IN  MapHas(cache', key) /\ MapGet(cache', key) = entries[last]
        /\ \A key \in (MapKeys(cache) \cup MapKeys(cache')) \ freshKeys :
               /\ MapHas(cache, key) /\ MapHas(cache', key)
               /\ MapGet(cache', key) = MapGet(cache, key)

\* get or has, called straight after load, answers with the entry under key
C27_Answers(key) ==
    \/ GetResult(cache', key, now').ret # Miss
    \/ HasResult(cache', key, now').ret

\* C27: load puts into the cache the snapshot entries with now - timestamp < ttl (the
\* last one of a key) and nothing else, and leaves the other keys alone, so that
\* straight after load every entry taken from the snapshot is younger than ttl and is
\* what get and has answer with, and no snapshot entry at or past its ttl is returned;
\* an entry at or past its ttl that get or has still answers with was in the cache
\* before load and is exactly ttl old (get and has expire at now - timestamp > ttl).
C27_LoadTakesFreshEntries ==
    [][C27_LoadStep =>
          /\ C27_TakesFreshOnly
          /\ \A i \in C27_Fresh(loading.entries, now) :
                 LET key == loading.entries[i].key IN
                 /\ now' - MapGet(cache', key).timestamp < ttl
                 /\ GetResult(cache', key, now').ret = MapGet(cache', key).value
                 /\ HasResult(cache', key, now').ret
          /\ \A key \in MapKeys(cache') :
                 (now' - MapGet(cache', key).timestamp >= ttl /\ C27_Answers(key)) =>
                     /\ MapHas(cache, key)
                     /\ MapGet(cache', key) = MapGet(cache, key)
                     /\ now' - MapGet(cache', key).timestamp = ttl]_vars

\* a load has gone through a snapshot of which it took one entry and dropped another,
\* while the cache held an entry of its own
C27_Witness ==
    /\ loading.pc = "done"
    /\ \E i \in 1..Len(loading.entries) :
           /\ MapHas(cache, loading.entries[i].key)
           /\ MapGet(cache, loading.entries[i].key) = loading.entries[i]
    /\ \E i \in 1..Len(loading.entries) : ~MapHas(cache, loading.entries[i].key)
    /\ \E i \in 1..Len(cache) : cache[i].value \in CacheValues

-----------------------------------------------------------------------------
(* C28: createKey tells texts apart *)

\* C28: getOrCompute never returns for a text a vector that was computed for another
\* text, and, two different texts never having the same key, the entry under the key of
\* a text holds a vector that was computed for that text.
C28_OwnVectorPerText ==
    /\ returned.from # "none" => returned.vector.vec[1] = returned.text
    /\ \A i \in 1..Len(cache) :
           \A text \in Texts :
               cache[i].key = createKey(text) => cache[i].value.vec[1] = text

-----------------------------------------------------------------------------
(* C29: the capacity of a cache with a snapshot file *)

\* C29: whatever set, get, has, clear, invalidatePattern and load calls were made, the
\* cache holds no more than maxSize entries.
C29_NeverOverMaxSize == Len(cache) <= maxSize

-----------------------------------------------------------------------------
(* C30: load next to embedding requests *)

\* C30: when load goes through the entries it read, an entry the cache holds is not
\* replaced by a snapshot entry of the same key and an earlier timestamp: it stays as
\* it is, and its timestamp does not move backwards.
C30_LoadKeepsNewerEntries ==
    [][(loading.pc = "reading" /\ loading'.pc = "done") =>
          \A i \in 1..Len(cache) :
              LET entry == cache[i] IN
              /\ MapHas(cache', entry.key)
              /\ MapGet(cache', entry.key).timestamp >= entry.timestamp
              /\ (\A j \in 1..Len(loading.entries) :
                      loading.entries[j].key = entry.key =>
                          loading.entries[j].timestamp < entry.timestamp)
                     => MapGet(cache', entry.key) = entry]_vars

====
